---- MODULE Spec2Model ----
(***************************************************************************)
(* Model of the GFF -> BED region extraction scripts of                    *)
(* 02_locus_enrichment:                                                    *)
(*   prepare_mtfeatures_forLOLA_regionDB.py  (script "mito")               *)
(*   prepare_regionBD_forlola.py             (script "nuc")                *)
(*   regionDB/prepare_nuclear_regionDB.py    (script "regiondb")           *)
(*                                                                         *)
(* Text is modelled as a sequence of one-character strings, so that the    *)
(* string operations of the scripts (strip, split, startswith, lower,      *)
(* int(), str()) are computed and not assumed.  An input line is the       *)
(* sequence of its tab-separated columns (what line.split("\t") returns:   *)
(* never empty, the blank line being one empty column); an output line is  *)
(* the sequence of the fields that are joined with tabs.                   *)
(***************************************************************************)
EXTENDS Integers, Sequences, FiniteSets, TLC

VARIABLES
    gff,            \* the annotation file: its lines, each a sequence of columns
    gff_exists,     \* whether the annotation path names a file at all
    allowed,        \* the invocations this session may make (script and arguments)
    fs,             \* the output directory: file name -> lines
    runsLeft,       \* invocations still to come
    pc,             \* "idle", "read" (in the loop), "done" (files written),
                    \* "failed" (the run ended with an error)
    cfg,            \* the invocation in progress
    pos,            \* index of the next line to read
    revmap, beds, counters, total_in, total_emitted,   \* the locals of the run
    history,        \* the completed runs, oldest first
    failures        \* the runs that ended with an error, oldest first

vars == <<gff, gff_exists, allowed, fs, runsLeft, pc, cfg, pos,
          revmap, beds, counters, total_in, total_emitted, history, failures>>

(***************************************************************************)
(* Bounds of the model.                                                    *)
(***************************************************************************)
\* longest annotation file of the coordinate scenarios
MaxCoordLines == 3

\* longest annotation file of the name scenarios
MaxNameLines == 3

\* longest annotation file of the partition scenarios
MaxPartLines == 2

\* longest annotation file of the category scenarios
MaxMapLines == 2

\* longest annotation file, and most runs in a row, of the re-run scenarios
MaxRerunLines == 2

MaxRuns == 3

\* longest annotation file of the sort scenarios
MaxSortLines == 3

\* longest annotation file of the attribute scenarios
MaxAttrLines == 2

\* longest annotation file of the fallback-name scenarios
MaxCounterLines == 3

\* longest annotation file of the summary scenarios
MaxSummaryLines == 3

\* longest annotation file of the classifier scenarios
MaxClassifyLines == 2

\* longest annotation file of the score and strand scenarios
MaxScoreLines == 2

(***************************************************************************)
(* Characters and strings.                                                 *)
(***************************************************************************)
UpperCase == <<"A","B","C","D","E","F","G","H","I","J","K","L","M",
               "N","O","P","Q","R","S","T","U","V","W","X","Y","Z">>

LowerCase == <<"a","b","c","d","e","f","g","h","i","j","k","l","m",
               "n","o","p","q","r","s","t","u","v","w","x","y","z">>

DigitChars == <<"0","1","2","3","4","5","6","7","8","9">>

\* The ASCII characters str.strip() takes as whitespace, in code
\* point order: tab, line feed, vertical tab (0x0B, written as the character
\* itself), form feed, carriage return, the separators 0x1C to 0x1F (written
\* as the characters themselves) and the space.
WhiteSpace == <<"\t", "\n", "", "\f", "\r", "", "", "", "", " ">>

\* Code point order of the ASCII characters (str comparison): the control
\* characters 0x01 to 0x1F (written as the characters themselves where there
\* is no escape), the space, the printable characters 0x21 to 0x7E (without
\* the backquote, 0x60, which no string of the model can hold) and 0x7F.
\* The character 0x00 is not listed: IndexIn gives it 0, below all others.
CodeOrder ==
    <<"", "", "", "", "", "", "", "">>
    \o SubSeq(WhiteSpace, 1, 5)
    \o <<"", "", "", "", "", "", "", "", "", "", "", "", "", "">>
    \o SubSeq(WhiteSpace, 6, 10)
    \o <<"!", "\"", "#", "$", "%", "&", "'", "(", ")", "*", "+", ",", "-", ".", "/">>
    \o DigitChars
    \o <<":", ";", "<", "=", ">", "?", "@">>
    \o UpperCase
    \o <<"[", "\\", "]", "^", "_">>
    \o LowerCase
    \o <<"{", "|", "}", "~", "">>

IndexIn(c, table) ==
    IF \E i \in 1..Len(table) : table[i] = c
    THEN CHOOSE i \in 1..Len(table) : table[i] = c
    ELSE 0

\* the lower-case letter of each upper-case letter
LowerTable == [c \in {UpperCase[i] : i \in 1..Len(UpperCase)} |-> LowerCase[IndexIn(c, UpperCase)]]

\* str.lower() on one character
LowerChar(c) == IF c \in DOMAIN LowerTable THEN LowerTable[c] ELSE c

\* str.lower()
Lower(s) == [i \in 1..Len(s) |-> LowerChar(s[i])]

\* str.startswith(p)
StartsWith(s, p) == Len(p) <= Len(s) /\ SubSeq(s, 1, Len(p)) = p

\* p in s
Contains(s, p) ==
    \E i \in 1..(Len(s) - Len(p) + 1) : SubSeq(s, i, i + Len(p) - 1) = p

\* s.find(c) + 1 for a one-character c: 0 when absent
Find(s, c) ==
    IF \E i \in 1..Len(s) : s[i] = c
    THEN CHOOSE i \in 1..Len(s) : s[i] = c /\ \A j \in 1..(i-1) : s[j] # c
    ELSE 0

\* the characters of a table
CharSet(table) == {table[i] : i \in 1..Len(table)}

\* the positions of s, in order, that hold x
PlacesHolding(s, x) == SelectSeq([i \in 1..Len(s) |-> i], LAMBDA i : s[i] = x)

\* the positions of s, in order, that hold none of the elements of drop
PlacesOutside(s, drop) == SelectSeq([i \in 1..Len(s) |-> i], LAMBDA i : s[i] \notin drop)

\* s without the elements of drop at its two ends
StripSet(s, drop) ==
    LET kept == PlacesOutside(s, drop)
    IN  IF kept = <<>> THEN <<>> ELSE SubSeq(s, kept[1], kept[Len(kept)])

WhiteSpaceSet == CharSet(WhiteSpace)

\* str.strip()
Strip(s) == StripSet(s, WhiteSpaceSet)

\* str.strip(c) for a one-character c
StripChar(s, c) == StripSet(s, {c})

\* str.split(c): the list of parts, never empty
Split(s, c) ==
    LET seps == PlacesHolding(s, c)
    IN  [k \in 1..(Len(seps) + 1) |->
            SubSeq(s, IF k = 1 THEN 1 ELSE seps[k - 1] + 1,
                      IF k > Len(seps) THEN Len(s) ELSE seps[k] - 1)]

\* str.split(c, 1) of a string that contains c: <<before, after>>
SplitFirst(s, c) ==
    LET at == Find(s, c)
    IN  <<SubSeq(s, 1, at - 1), SubSeq(s, at + 1, Len(s))>>

\* the whitespace int() skips around the digits of an ASCII string: tab, line
\* feed, vertical tab, form feed, carriage return and the space; the
\* separators 0x1C to 0x1F are whitespace for str.strip() only
IntWhiteSpace == SubSeq(WhiteSpace, 1, 5) \o <<" ">>

IntWhiteSpaceSet == CharSet(IntWhiteSpace)

DigitSet == CharSet(DigitChars)

IsDigit(c) == c \in DigitSet

\* sys.get_int_max_str_digits(), as CPython sets it: int() of a string with
\* more digits, and str() of an integer with more digits, raise ValueError
MaxStrDigits == 4300

\* the value of each digit
DigitValOf == [c \in DigitSet |-> IndexIn(c, DigitChars) - 1]

DigitVal(c) == DigitValOf[c]

(***************************************************************************)
(* Integers of the program have no bound.  An integer is a record          *)
(* [neg, mag]: its sign and the decimal digits of its magnitude, as        *)
(* numbers 0..9, the most significant first and without leading zeros;     *)
(* zero is [neg |-> FALSE, mag |-> <<>>].                                  *)
(***************************************************************************)
IntZero == [neg |-> FALSE, mag |-> <<>>]

\* a digit list without its leading zeros
DropZeros(m) ==
    LET nz == PlacesOutside(m, {0})
    IN  IF nz = <<>> THEN <<>> ELSE SubSeq(m, nz[1], Len(m))

\* the magnitude the digits of a string stand for; underscores are skipped
DigitsMag(s) ==
    LET d == SelectSeq(s, IsDigit)
    IN  DropZeros([i \in 1..Len(d) |-> DigitVal(d[i])])

\* m - 1 for a magnitude m > 0: the last digit that is not 0 is lowered, the
\* zeros after it become nines
MagPred(m) ==
    LET nz == PlacesOutside(m, {0})
        z == nz[Len(nz)]
    IN  DropZeros([i \in 1..Len(m) |-> IF i < z THEN m[i] ELSE IF i = z THEN m[i] - 1 ELSE 9])

\* m + 1 for a magnitude: the last digit that is not 9 is raised, the nines
\* after it become zeros
MagSucc(m) ==
    LET n9 == PlacesOutside(m, {9})
    IN  IF n9 = <<>> THEN <<1>> \o [i \in 1..Len(m) |-> 0]
        ELSE [i \in 1..Len(m) |->
                 IF i < n9[Len(n9)] THEN m[i] ELSE IF i = n9[Len(n9)] THEN m[i] + 1 ELSE 0]

\* a < b for magnitudes
MagLess(a, b) ==
    \/ Len(a) < Len(b)
    \/ /\ Len(a) = Len(b)
       /\ \E i \in 1..Len(a) : a[i] < b[i] /\ \A j \in 1..(i - 1) : a[j] = b[j]

\* a < b for integers
IntLess(a, b) ==
    IF a.neg /\ ~b.neg THEN TRUE
    ELSE IF ~a.neg /\ b.neg THEN FALSE
    ELSE IF a.neg THEN MagLess(b.mag, a.mag)
    ELSE MagLess(a.mag, b.mag)

\* n - 1
IntMinusOne(n) ==
    IF n.neg THEN [neg |-> TRUE, mag |-> MagSucc(n.mag)]
    ELSE IF n.mag = <<>> THEN [neg |-> TRUE, mag |-> <<1>>]
    ELSE [neg |-> FALSE, mag |-> MagPred(n.mag)]

\* max(a, b)
IntMax(a, b) == IF IntLess(a, b) THEN b ELSE a

\* str(n) raises ValueError: more digits than the conversion allows
StrRaises(n) == Len(n.mag) > MaxStrDigits

\* str(n)
IntStr(n) ==
    IF n.mag = <<>> THEN <<"0">>
    ELSE (IF n.neg THEN <<"-">> ELSE <<>>) \o [i \in 1..Len(n.mag) |-> DigitChars[n.mag[i] + 1]]

\* the digit part int() accepts: digits, single underscores between digits
IsIntBody(b) ==
    /\ b # <<>>
    /\ IsDigit(b[1])
    /\ IsDigit(b[Len(b)])
    /\ \A i \in 1..Len(b) : IsDigit(b[i]) \/ b[i] = "_"
    /\ \A i \in 1..(Len(b) - 1) : ~(b[i] = "_" /\ b[i+1] = "_")

\* the digits of a string; underscores, the sign and whitespace are not counted
DigitCount(b) == Cardinality({i \in 1..Len(b) : IsDigit(b[i])})

IntBody(t) == IF t # <<>> /\ (t[1] = "+" \/ t[1] = "-") THEN Tail(t) ELSE t

\* int(s): [ok |-> FALSE] stands for ValueError
ParseInt(s) ==
    LET t == StripSet(s, IntWhiteSpaceSet)
        b == IntBody(t)
        mag == DigitsMag(b)
    IN  IF IsIntBody(b) /\ DigitCount(b) <= MaxStrDigits
        THEN [ok |-> TRUE, val |-> [neg |-> t[1] = "-" /\ mag # <<>>, mag |-> mag]]
        ELSE [ok |-> FALSE, val |-> IntZero]

RECURSIVE NatToStr(_)
NatToStr(n) ==
    IF n < 10 THEN <<DigitChars[n + 1]>>
    ELSE NatToStr(n \div 10) \o <<DigitChars[(n % 10) + 1]>>

\* str(n) for an integer
IntToStr(n) == IF n < 0 THEN <<"-">> \o NatToStr(0 - n) ELSE NatToStr(n)

\* a < b for str (code point order, shorter prefix first)
RECURSIVE StrLess(_, _)
StrLess(a, b) ==
    IF b = <<>> THEN FALSE
    ELSE IF a = <<>> THEN TRUE
    ELSE IF Head(a) = Head(b) THEN StrLess(Tail(a), Tail(b))
    ELSE IndexIn(Head(a), CodeOrder) < IndexIn(Head(b), CodeOrder)

(***************************************************************************)
(* Dictionaries: a dict is a function on its key set.                      *)
(***************************************************************************)
EmptyDict == <<>>

DictSet(d, k, v) == [x \in (DOMAIN d) \cup {k} |-> IF x = k THEN v ELSE d[x]]

\* d.get(k) with None read as the empty string (both are falsy)
DictGet(d, k) == IF k \in DOMAIN d THEN d[k] ELSE <<>>

\* a or b
Or(a, b) == IF a # <<>> THEN a ELSE b

(***************************************************************************)
(* String constants of the scripts.                                        *)
(***************************************************************************)
S_Name == <<"N","a","m","e">>

S_ID == <<"I","D">>

S_IDREF == <<"I","D","R","E","F">>

S_gene == <<"g","e","n","e">>

S_Mito == <<"M","i","t","o">>

S_tRNA_gene == <<"t","R","N","A","_","g","e","n","e">>

S_rRNA_gene == <<"r","R","N","A","_","g","e","n","e">>

S_origin == <<"o","r","i","g","i","n","_","o","f","_","r","e","p","l","i","c","a","t","i","o","n">>

S_ARS == <<"A","R","S">>

S_ARS_cons == <<"A","R","S","_","c","o","n","s","e","n","s","u","s","_","s","e","q","u","e","n","c","e">>

S_chromosome == <<"c","h","r","o","m","o","s","o","m","e">>

S_bed == <<".","b","e","d">>

\* FEATURE_MAPPING of the organelle script: the dict as its (key, value) pairs in order
FEATURE_MAPPING_mito ==
    << <<S_gene, <<S_gene>>>>,
       <<S_tRNA_gene, <<S_tRNA_gene>>>>,
       <<S_rRNA_gene, <<S_rRNA_gene>>>>,
       <<S_origin, <<S_origin, S_ARS, S_ARS_cons>>>> >>

\* FEATURE_MAPPING of the nuclear script
FEATURE_MAPPING_nuc == << <<S_chromosome, <<S_chromosome>>>> >>

\* SINGLE_FEATURES of both scripts
SINGLE_FEATURES == {}

(***************************************************************************)
(* ContigClassifier.                                                       *)
(***************************************************************************)
\* mutant: the identifier is matched as written, not lower-cased
is_mito_case_sensitive(seqid) ==
    IF seqid = <<>> THEN FALSE
    ELSE \/ StartsWith(seqid, <<"m","i","t","o">>)
         \/ StartsWith(seqid, <<"m","t">>)
         \/ StartsWith(seqid, <<"c","h","r","m">>)
         \/ Contains(seqid, <<"m","i","t","o","c","h","o","n","d">>)
         \/ seqid = <<"m">> \/ seqid = <<"c","h","r","m">> \/ seqid = <<"c","h","r","m","_","m">>

\* mutant: the prefixes alone, without the substring and the aliases
is_mito_prefixes_only(seqid) ==
    IF seqid = <<>> THEN FALSE
    ELSE LET s == Lower(seqid)
         IN  \/ StartsWith(s, <<"m","i","t","o">>)
             \/ StartsWith(s, <<"m","t">>)
             \/ StartsWith(s, <<"c","h","r","m">>)

\* is_mito(seqid) of the nuclear script
is_mito(seqid) ==
    IF seqid = <<>> THEN FALSE
    ELSE LET s == Lower(seqid)
         IN  IF \/ StartsWith(s, <<"m","i","t","o">>)
                \/ StartsWith(s, <<"m","t">>)
                \/ StartsWith(s, <<"c","h","r","m">>)
                \/ Contains(s, <<"m","i","t","o","c","h","o","n","d">>)
             THEN TRUE
             ELSE IF s = <<"m">> \/ s = <<"c","h","r","m">> \/ s = <<"c","h","r","m","_","m">>
             THEN TRUE
             ELSE FALSE

\* PAT_MITO.search(chrom): Mito|mito|mt|chrM|mtdna|mitochond, case-insensitive
PAT_MITO_search(chrom) ==
    LET s == Lower(chrom)
    IN  \/ Contains(s, <<"m","i","t","o">>)
        \/ Contains(s, <<"m","t">>)
        \/ Contains(s, <<"c","h","r","m">>)
        \/ Contains(s, <<"m","t","d","n","a">>)
        \/ Contains(s, <<"m","i","t","o","c","h","o","n","d">>)

(***************************************************************************)
(* AttributeParser.                                                        *)
(***************************************************************************)
\* mutant: a key that is already in the mapping keeps its first value
AttrPart_first_wins(d, part, stripq) ==
    IF part = <<>> THEN d
    ELSE IF Find(part, "=") # 0
    THEN IF SplitFirst(part, "=")[1] \in DOMAIN d THEN d
         ELSE DictSet(d, SplitFirst(part, "=")[1], SplitFirst(part, "=")[2])
    ELSE IF Find(part, " ") # 0
    THEN IF SplitFirst(part, " ")[1] \in DOMAIN d THEN d
         ELSE DictSet(d, SplitFirst(part, " ")[1],
                      IF stripq THEN StripChar(SplitFirst(part, " ")[2], "\"")
                      ELSE SplitFirst(part, " ")[2])
    ELSE IF part \in DOMAIN d THEN d ELSE DictSet(d, part, <<>>)

\* one pass of the for loop of parse_attrs; stripq: the organelle script strips quotes
AttrPart(d, part, stripq) ==
    IF part = <<>> THEN d
    ELSE IF Find(part, "=") # 0
    THEN LET kv == SplitFirst(part, "=")
         IN  DictSet(d, kv[1], kv[2])
    ELSE IF Find(part, " ") # 0
    THEN LET kv == SplitFirst(part, " ")
         IN  DictSet(d, kv[1], IF stripq THEN StripChar(kv[2], "\"") ELSE kv[2])
    ELSE DictSet(d, part, <<>>)

RECURSIVE AttrParts(_, _, _)
AttrParts(d, parts, stripq) ==
    IF parts = <<>> THEN d
    ELSE AttrParts(AttrPart(d, Head(parts), stripq), Tail(parts), stripq)

\* parse_attrs of the organelle script
parse_attrs_mito(attrstr) ==
    LET s == Strip(attrstr)
    IN  IF attrstr = <<>> \/ s = <<".">> THEN EmptyDict
        ELSE AttrParts(EmptyDict, Split(s, ";"), TRUE)

\* parse_attrs of the nuclear script
parse_attrs_nuc(attrstr) ==
    LET s == Strip(attrstr)
    IN  IF attrstr = <<>> \/ s = <<".">> THEN EmptyDict
        ELSE AttrParts(EmptyDict, Split(s, ";"), FALSE)

(***************************************************************************)
(* CategoryMapper.                                                         *)
(***************************************************************************)
\* rev[v].append(key) on a defaultdict(list)
RevAppend(rev, v, key) == DictSet(rev, v, DictGet(rev, v) \o <<key>>)

RECURSIVE RevVals(_, _, _)
RevVals(rev, vals, key) ==
    IF vals = <<>> THEN rev
    ELSE RevVals(RevAppend(rev, Head(vals), key), Tail(vals), key)

\* The items of a mapping, by the kind of their value: <<key, vals>> holds a
\* list, tuple or set of types; <<key, s, "str">> holds one string s;
\* <<key, n, "int">> holds a value that is neither and cannot be iterated,
\* the integer n.
IsListItem(item) == Len(item) = 2
IsStrItem(item) == Len(item) = 3 /\ item[3] = "str"

\* build_reverse_map of the organelle script: gff type -> list of mapping keys;
\* a value that is no list, tuple or set is one entry, under str(vals)
RECURSIVE build_reverse_map(_)
build_reverse_map(mapping) ==
    IF mapping = <<>> THEN EmptyDict
    ELSE LET front == build_reverse_map(SubSeq(mapping, 1, Len(mapping) - 1))
             last == mapping[Len(mapping)]
         IN  IF IsListItem(last) THEN RevVals(front, last[2], last[1])
             ELSE IF IsStrItem(last) THEN RevAppend(front, last[2], last[1])
             ELSE RevAppend(front, IntToStr(last[2]), last[1])

\* one item of the loop of the nuclear build_reverse_map: a list, tuple or set
\* gives an entry per type, a string one entry, and the guarded loop over any
\* other value raises on the integer and stores nothing
RevItem_nuc(rev, item) ==
    IF IsListItem(item) THEN RevVals(rev, item[2], item[1])
    ELSE IF IsStrItem(item) THEN RevAppend(rev, item[2], item[1])
    ELSE rev

RECURSIVE RevFold_nuc(_, _)
RevFold_nuc(rev, mapping) ==
    IF mapping = <<>> THEN rev
    ELSE RevFold_nuc(RevItem_nuc(rev, Head(mapping)), Tail(mapping))

\* build_reverse_map of the nuclear script
build_reverse_map_nuc(feature_mapping) == RevFold_nuc(EmptyDict, feature_mapping)

\* mutant: the passthrough set is never consulted
cat_keys_of_no_passthrough(rev, single_features, ftype) == DictGet(rev, ftype)

\* cat_keys = revmap.get(ftype, []).copy(); the passthrough append
cat_keys_of(rev, single_features, ftype) ==
    LET listed == DictGet(rev, ftype)
    IN  IF ftype \in single_features /\ ftype \notin DOMAIN rev
        THEN listed \o <<ftype>>
        ELSE listed

\* mutant: the lookup subscripts the defaultdict, which stores a list for a
\* feature type it did not hold
revmap_after_subscript(rev, single_features, ftype) ==
    DictSet(rev, ftype, DictGet(rev, ftype))

\* the reverse map after the lookup of ftype: get() stores nothing in the
\* defaultdict, and the passthrough append works on the copy
revmap_after_lookup(rev, single_features, ftype) == rev

(***************************************************************************)
(* NameResolver.                                                           *)
(***************************************************************************)
\* mutant: the chain ends at the attributes, the feature type is never the name
name_chain_without_ftype(attrd, ftype) ==
    Or(DictGet(attrd, S_Name),
       Or(DictGet(attrd, S_ID),
          Or(DictGet(attrd, S_IDREF), DictGet(attrd, S_gene))))

\* mutant: ID is looked up before Name
name_chain_id_first(attrd, ftype) ==
    Or(DictGet(attrd, S_ID),
       Or(DictGet(attrd, S_Name),
          Or(DictGet(attrd, S_IDREF),
             Or(DictGet(attrd, S_gene), ftype))))

\* attrd.get("Name") or attrd.get("ID") or attrd.get("IDREF") or attrd.get("gene") or ftype
name_chain(attrd, ftype) ==
    Or(DictGet(attrd, S_Name),
       Or(DictGet(attrd, S_ID),
          Or(DictGet(attrd, S_IDREF),
             Or(DictGet(attrd, S_gene), ftype))))

\* counter[ftype] on a defaultdict(int)
CounterGet(counter, ftype) == IF ftype \in DOMAIN counter THEN counter[ftype] ELSE 0

\* mutant: the counter of the feature type is stepped for every record
choose_name_counts_every_record(attrd, ftype, counter) ==
    LET name == name_chain(attrd, ftype)
        stepped == DictSet(counter, ftype, CounterGet(counter, ftype) + 1)
    IN  IF name = <<>>
        THEN [name |-> ftype \o <<"_">> \o IntToStr(CounterGet(counter, ftype) + 1),
              counter |-> stepped]
        ELSE [name |-> name, counter |-> stepped]

\* choose_name: the name and the counters as it leaves them
choose_name(attrd, ftype, counter) ==
    LET name == name_chain(attrd, ftype)
    IN  IF name = <<>>
        THEN [name |-> ftype \o <<"_">> \o IntToStr(CounterGet(counter, ftype) + 1),
              counter |-> DictSet(counter, ftype, CounterGet(counter, ftype) + 1)]
        ELSE [name |-> name, counter |-> counter]

(***************************************************************************)
(* Per-category buffers: defaultdict(list), keys kept in insertion order.  *)
(***************************************************************************)
EmptyBeds == [order |-> <<>>, rows |-> EmptyDict]

\* beds[key].append(row)
BedsAppend(b, key, row) ==
    [order |-> IF key \in DOMAIN b.rows THEN b.order ELSE b.order \o <<key>>,
     rows |-> DictSet(b.rows, key, DictGet(b.rows, key) \o <<row>>)]

\* mutant: the row reaches the first category only
BedsAppendFirst(b, keys, row) ==
    IF keys = <<>> THEN b ELSE BedsAppend(b, Head(keys), row)

RECURSIVE BedsAppendAll(_, _, _)
BedsAppendAll(b, keys, row) ==
    IF keys = <<>> THEN b
    ELSE BedsAppendAll(BedsAppend(b, Head(keys), row), Tail(keys), row)

\* the state a run carries through its loop
NewRun(rev) ==
    [revmap |-> rev, beds |-> EmptyBeds, counters |-> EmptyDict,
     total_in |-> 0, total_emitted |-> 0]

score_out_of(score) == IF score # <<".">> THEN score ELSE <<"0">>

\* mutant: the strand is passed on as it is
strand_out_unchecked(strand) == strand

strand_out_of(strand) == IF strand \in {<<"+">>, <<"-">>, <<".">>} THEN strand ELSE <<".">>

\* mutant: the lower clamp forgotten
bed_start_unclamped(start) == IntMinusOne(start)

\* bed_start = max(0, start - 1)
bed_start_of(start) == IntMax(IntZero, IntMinusOne(start))

(***************************************************************************)
(* extract_mito_features: one pass of the loop over the input lines.       *)
(***************************************************************************)
mito_row(cols, start, end, name) ==
    <<cols[1], IntStr(bed_start_of(start)), IntStr(end), name,
      score_out_of(cols[6]), strand_out_of(cols[7])>>

\* mutant: the emitted total counts records, not rows
mito_emit_counts_records(c, st, cols, start, end) ==
    LET picked == choose_name(parse_attrs_mito(cols[9]), cols[3], st.counters)
        keys == cat_keys_of(st.revmap, c.single_features, cols[3])
        st1 == [st EXCEPT !.counters = picked.counter,
                          !.revmap = revmap_after_lookup(@, c.single_features, cols[3])]
    IN  IF keys = <<>> THEN st1
        ELSE [st1 EXCEPT !.beds = BedsAppendAll(@, keys, mito_row(cols, start, end, picked.name)),
                         !.total_emitted = @ + 1]

mito_emit(c, st, cols, start, end) ==
    LET picked == choose_name(parse_attrs_mito(cols[9]), cols[3], st.counters)
        keys == cat_keys_of(st.revmap, c.single_features, cols[3])
        st1 == [st EXCEPT !.counters = picked.counter,
                          !.revmap = revmap_after_lookup(@, c.single_features, cols[3])]
    IN  IF keys = <<>> THEN st1
        ELSE [st1 EXCEPT !.beds = BedsAppendAll(@, keys, mito_row(cols, start, end, picked.name)),
                         !.total_emitted = @ + Len(keys)]

mito_line(c, st, cols) ==
    IF cols = << <<>> >> \/ StartsWith(cols[1], <<"#">>) THEN st
    ELSE LET st1 == [st EXCEPT !.total_in = @ + 1]
         IN  IF Len(cols) < 9 THEN st1
             ELSE IF cols[1] # S_Mito THEN st1
             ELSE LET start == ParseInt(cols[4])
                      end == ParseInt(cols[5])
                  IN  IF ~start.ok \/ ~end.ok THEN st1
                      ELSE mito_emit(c, st1, cols, start.val, end.val)

(***************************************************************************)
(* gff_to_beds: one pass of the loop over the input lines.                 *)
(***************************************************************************)
nuc_row(cols, start, end, name) ==
    <<cols[1], bed_start_of(start), end, name, score_out_of(cols[6]), strand_out_of(cols[7])>>

nuc_name(attrd, ftype, counter) ==
    LET name == name_chain(attrd, ftype)
    IN  IF name = <<>>
        THEN [name |-> ftype \o <<"_">> \o IntToStr(CounterGet(counter, ftype) + 1),
              counter |-> DictSet(counter, ftype, CounterGet(counter, ftype) + 1)]
        ELSE [name |-> name, counter |-> counter]

nuc_emit(c, st, cols, start, end) ==
    LET picked == nuc_name(parse_attrs_nuc(cols[9]), cols[3], st.counters)
        keys == cat_keys_of(st.revmap, c.single_features, cols[3])
        st1 == [st EXCEPT !.counters = picked.counter,
                          !.revmap = revmap_after_lookup(@, c.single_features, cols[3])]
    IN  IF keys = <<>> THEN st1
        ELSE [st1 EXCEPT !.beds = BedsAppendAll(@, keys, nuc_row(cols, start, end, picked.name))]

\* mutant: the except ValueError branch emits the record with coordinate 0
nuc_line_keeps_bad(c, st, cols) ==
    IF StartsWith(cols[1], <<"#">>) THEN st
    ELSE IF cols = << <<>> >> THEN st
    ELSE IF Len(cols) < 9 THEN st
    ELSE IF c.skip_mito /\ is_mito(cols[1]) THEN st
    ELSE nuc_emit(c, st, cols, ParseInt(cols[4]).val, ParseInt(cols[5]).val)

nuc_line(c, st, cols) ==
    IF StartsWith(cols[1], <<"#">>) THEN st
    ELSE IF cols = << <<>> >> THEN st
    ELSE IF Len(cols) < 9 THEN st
    ELSE IF c.skip_mito /\ is_mito(cols[1]) THEN st
    ELSE LET start == ParseInt(cols[4])
             end == ParseInt(cols[5])
         IN  IF ~start.ok \/ ~end.ok THEN st
             ELSE nuc_emit(c, st, cols, start.val, end.val)

(***************************************************************************)
(* parse_gff of the nuclear regionDB script: one pass of its loop.         *)
(***************************************************************************)
\* FEATURE_MAP: feature -> file name, as (key, value) pairs
FEATURE_MAP ==
    << <<S_gene, S_gene \o S_bed>>,
       <<<<"p","s","e","u","d","o","g","e","n","e">>, <<"p","s","e","u","d","o","g","e","n","e">> \o S_bed>>,
       <<<<"c","e","n","t","r","o","m","e","r","e">>, <<"c","e","n","t","r","o","m","e","r","e">> \o S_bed>>,
       <<<<"l","o","n","g","_","t","e","r","m","i","n","a","l","_","r","e","p","e","a","t">>,
         <<"l","o","n","g","_","t","e","r","m","i","n","a","l","_","r","e","p","e","a","t">> \o S_bed>>,
       <<<<"m","o","b","i","l","e","_","g","e","n","e","t","i","c","_","e","l","e","m","e","n","t">>,
         <<"m","o","b","i","l","e","_","g","e","n","e","t","i","c","_","e","l","e","m","e","n","t">> \o S_bed>>,
       <<<<"n","c","R","N","A">>, <<"n","c","R","N","A">> \o S_bed>>,
       <<S_origin, S_origin \o S_bed>>,
       <<<<"r","e","g","u","l","a","t","o","r","y","_","r","e","g","i","o","n">>,
         <<"r","e","g","u","l","a","t","o","r","y","_","r","e","g","i","o","n">> \o S_bed>>,
       <<<<"r","R","N","A">>, <<"r","R","N","A">> \o S_bed>>,
       <<<<"t","R","N","A">>, <<"t","R","N","A">> \o S_bed>>,
       <<<<"s","n","R","N","A">>, <<"s","n","R","N","A">> \o S_bed>>,
       <<<<"s","n","o","R","N","A">>, <<"s","n","o">> \o S_bed>>,
       <<<<"t","e","l","o","m","e","r","e">>, <<"t","e","l","o","m","e","r","e">> \o S_bed>> >>

\* features = set(FEATURE_MAP.keys())
FeatureKeys == {FEATURE_MAP[i][1] : i \in 1..Len(FEATURE_MAP)}

parse_gff_line(feature_keys, st, cols) ==
    IF StartsWith(cols[1], <<"#">>) THEN st
    ELSE IF Len(cols) < 9 THEN st
    ELSE IF PAT_MITO_search(Strip(cols[1])) THEN st
    ELSE LET start == ParseInt(cols[4])
             end == ParseInt(cols[5])
         IN  IF ~start.ok \/ ~end.ok THEN st
             ELSE IF Strip(cols[3]) \in feature_keys
             THEN [st EXCEPT !.beds = BedsAppend(@, Strip(cols[3]),
                                 <<Strip(cols[1]), IntMinusOne(start.val), end.val>>)]
             ELSE st

\* the loop body of the run's script
StepLine(c, st, cols) ==
    IF c.script = "mito" THEN mito_line(c, st, cols)
    ELSE IF c.script = "nuc" THEN nuc_line(c, st, cols)
    ELSE parse_gff_line(FeatureKeys, st, cols)

\* the whole loop over a file
RECURSIVE RunLines(_, _, _)
RunLines(c, st, lines) ==
    IF lines = <<>> THEN st
    ELSE RunLines(c, StepLine(c, st, Head(lines)), Tail(lines))

(***************************************************************************)
(* RegionWriter.                                                           *)
(*                                                                         *)
(* The output directory holds regular files only: fsys maps the name of    *)
(* each file to its lines.  Where a path opened by the write stage leads  *)
(* out of the directory, what the file system answers is an input of the   *)
(* invocation, c.outside: for the category key, "outside" (the file is     *)
(* opened, it is no file of the directory), "inside" (the path leads back  *)
(* into the directory, to the file of its last component) or, also for a   *)
(* key c.outside does not hold, "error" (open() raises).                   *)
(***************************************************************************)
\* the longest file name and the longest path open() accepts
NameMax == 255
PathMax == 4095

\* the characters CodeOrder lists
CodeChars == CharSet(CodeOrder)

\* the character 0x00: the one character CodeOrder does not list
IsNul(ch) == ch \notin CodeChars

\* f"{key}.bed"
bed_path(key) == key \o S_bed

\* os.path.join(outdir, fname)
path_join(outdir, fname) ==
    IF fname # <<>> /\ fname[1] = "/" THEN fname
    ELSE IF outdir = <<>> \/ outdir[Len(outdir)] = "/" THEN outdir \o fname
    ELSE outdir \o <<"/">> \o fname

\* the components of a path that name something: not empty, not "."
PathSteps(fname) ==
    SelectSeq(Split(fname, "/"), LAMBDA x : x # <<>> /\ x # <<".">>)

\* the path of fname leads out of outdir: it is absolute or starts with ".."
LeavesDir(fname) == fname[1] = "/" \/ PathSteps(fname)[1] = <<".", ".">>

\* the answer of the file system for a key whose path leaves the directory
OutsideAnswer(c, key) == IF key \in DOMAIN c.outside THEN c.outside[key] ELSE "error"

\* open(outpath, mode) for the category key: the file of the directory that
\* is opened, a file outside it, or the error open() raises (a 0x00 in the
\* path, a path or a component too long, a directory that does not exist)
open_target(c, key) ==
    LET fname == bed_path(key)
        outpath == path_join(c.outdir, fname)
        steps == PathSteps(fname)
        refused == [kind |-> "error", name |-> <<>>]
    IN  IF \E i \in 1..Len(outpath) : IsNul(outpath[i]) THEN refused
        ELSE IF Len(outpath) > PathMax THEN refused
        ELSE IF \E i \in 1..Len(steps) : Len(steps[i]) > NameMax THEN refused
        ELSE IF LeavesDir(fname)
        THEN IF OutsideAnswer(c, key) = "inside"
             THEN [kind |-> "inside", name |-> steps[Len(steps)]]
             ELSE [kind |-> OutsideAnswer(c, key), name |-> <<>>]
        ELSE IF Len(steps) = 1 THEN [kind |-> "inside", name |-> steps[1]]
        ELSE refused

\* the writes to an opened file: "w" truncates, "a" keeps what is there
WriteFile(fsys, path, mode, lines) ==
    DictSet(fsys, path, IF mode = "w" THEN lines ELSE fsys[path] \o lines)

\* the write stage so far: the files, whether it has raised, and the
\* "Wrote n regions" reports, as <<key, n>>, in the order they were printed
WriteStart(fsys) == [files |-> fsys, raised |-> FALSE, wrote |-> <<>>]

\* "\t".join(r) for a row of strings
mito_text(rows) == rows

\* "\t".join(map(str, r))
nuc_text(rows) ==
    [i \in 1..Len(rows) |->
        <<rows[i][1], IntStr(rows[i][2]), IntStr(rows[i][3]),
          rows[i][4], rows[i][5], rows[i][6]>>]

\* mutant: the overwrite flag is ignored, an existing file is appended to
mito_mode_ignores_overwrite(fsys, path, ow) == IF path \notin DOMAIN fsys THEN "w" ELSE "a"

\* mode = "w" if (overwrite or not os.path.exists(outpath)) else "a"
mito_mode(fsys, path, ow) == IF ow \/ path \notin DOMAIN fsys THEN "w" ELSE "a"

\* mutant: the file is always truncated
nuc_mode_always_truncates(fsys, path, ow) == "w"

\* if os.path.exists(outpath) and not overwrite: mode = "a" else: mode = "w"
nuc_mode(fsys, path, ow) == IF path \in DOMAIN fsys /\ ~ow THEN "a" ELSE "w"

\* the mode of the run's script
mode_of(c, fsys, path) ==
    IF c.script = "mito" THEN mito_mode(fsys, path, c.overwrite)
    ELSE nuc_mode(fsys, path, c.overwrite)

\* the text of the rows, as the run's script writes it
text_of(c, rows) == IF c.script = "mito" THEN mito_text(rows) ELSE nuc_text(rows)

\* one pass of the write loop: the file of the key is opened and written
\* and the count reported; the error of open() ends the stage
write_one(c, w, key, rows) ==
    LET t == open_target(c, key)
        said == [w EXCEPT !.wrote = Append(@, <<key, Len(rows)>>)]
    IN  IF t.kind = "error" THEN [w EXCEPT !.raised = TRUE]
        ELSE IF t.kind = "outside" THEN said
        ELSE [said EXCEPT !.files = WriteFile(@, t.name, mode_of(c, w.files, t.name),
                                              text_of(c, rows))]

\* write_beds of the organelle script, and the write loop at the end of
\* gff_to_beds: for key, rows in beds.items()
RECURSIVE write_beds(_, _, _, _)
write_beds(c, w, order, rows) ==
    IF order = <<>> \/ w.raised THEN w
    ELSE write_beds(c, write_one(c, w, Head(order), rows[Head(order)]), Tail(order), rows)

(***************************************************************************)
(* sort_bed, write_bed and main of the nuclear regionDB script.            *)
(***************************************************************************)
\* what "$" leaves of the rest of a string: "$" matches at the end and also
\* before a line feed that ends the string
BeforeEnd(s) ==
    IF s # <<>> /\ s[Len(s)] = "\n" THEN SubSeq(s, 1, Len(s) - 1) ELSE s

\* re.match(r"^(?:chr)?(\d+)$", c): the digits of group 1, or <<>> when there
\* is no match
chrom_digits(c) ==
    LET rest == IF StartsWith(c, <<"c","h","r">>) THEN SubSeq(c, 4, Len(c)) ELSE c
        body == BeforeEnd(rest)
    IN  IF body # <<>> /\ \A i \in 1..Len(body) : IsDigit(body[i]) THEN body ELSE <<>>

\* int(m.group(1)) raises ValueError: the digits are more than int() converts
chrom_key_raises(c) == Len(chrom_digits(c)) > MaxStrDigits

\* chrom_key(c): (0, int) or (1, c)
chrom_key(c) ==
    IF chrom_digits(c) # <<>>
    THEN [rank |-> 0, num |-> DigitsMag(chrom_digits(c)), str |-> <<>>]
    ELSE [rank |-> 1, num |-> <<>>, str |-> c]

chrom_key_less(a, b) ==
    \/ a.rank < b.rank
    \/ a.rank = b.rank /\ a.rank = 0 /\ MagLess(a.num, b.num)
    \/ a.rank = b.rank /\ a.rank = 1 /\ StrLess(a.str, b.str)

\* (chrom_key(x[0]), x[1], x[2]) < (chrom_key(y[0]), y[1], y[2])
bed_key_less(x, y) ==
    \/ chrom_key_less(chrom_key(x[1]), chrom_key(y[1]))
    \/ /\ chrom_key(x[1]) = chrom_key(y[1])
       /\ (IntLess(x[2], y[2]) \/ (x[2] = y[2] /\ IntLess(x[3], y[3])))

\* x put into a sorted list, after the entries that do not sort after it
RECURSIVE InsertBed(_, _)
InsertBed(sorted, x) ==
    IF sorted = <<>> THEN <<x>>
    ELSE IF bed_key_less(x, Head(sorted)) THEN <<x>> \o sorted
    ELSE <<Head(sorted)>> \o InsertBed(Tail(sorted), x)

RECURSIVE SortFrom(_, _)
SortFrom(sorted, entries) ==
    IF entries = <<>> THEN sorted
    ELSE SortFrom(InsertBed(sorted, Head(entries)), Tail(entries))

\* sort_bed(entries) raises: sorted() calls the key on every entry
sort_bed_raises(entries) ==
    \E i \in 1..Len(entries) : chrom_key_raises(entries[i][1])

\* sort_bed(entries): sorted() is stable
sort_bed(entries) == SortFrom(<<>>, entries)

\* a row write_bed cannot format: str() of its start0 or end raises
RowRaises(row) == StrRaises(row[2]) \/ StrRaises(row[3])

\* the rows write_bed writes before it ends: all, or those before the first
\* row it cannot format
RECURSIVE WritableRows(_)
WritableRows(rows) ==
    IF rows = <<>> \/ RowRaises(Head(rows)) THEN <<>>
    ELSE <<Head(rows)>> \o WritableRows(Tail(rows))

\* write_bed raises
write_bed_raises(rows) == \E i \in 1..Len(rows) : RowRaises(rows[i])

\* the lines write_bed writes: f"{chrom}\t{start}\t{end}\n"
regiondb_text(rows) ==
    [i \in 1..Len(WritableRows(rows)) |->
        <<rows[i][1], IntStr(rows[i][2]), IntStr(rows[i][3])>>]

\* sorted(features)
RECURSIVE SortedStrs(_)
SortedStrs(S) ==
    IF S = {} THEN <<>>
    ELSE LET m == CHOOSE x \in S : \A y \in S \ {x} : StrLess(x, y)
         IN  <<m>> \o SortedStrs(S \ {m})

\* sorted(features) in main
SortedFeatures == SortedStrs(FeatureKeys)

\* FEATURE_MAP[feat]
FeatureFile(feat) ==
    FEATURE_MAP[CHOOSE i \in 1..Len(FEATURE_MAP) : FEATURE_MAP[i][1] = feat][2]

\* one pass of the loop of main: the rows are sorted, the file is opened in
\* mode "w" and written, the count reported; the error of the sort ends the
\* stage before the file is opened, the error of write_bed after the rows
\* before the failing one are written
regiondb_one(w, feat, entries) ==
    IF sort_bed_raises(entries) THEN [w EXCEPT !.raised = TRUE]
    ELSE LET put == WriteFile(w.files, FeatureFile(feat), "w",
                              regiondb_text(sort_bed(entries)))
         IN  IF write_bed_raises(entries)
             THEN [w EXCEPT !.files = put, !.raised = TRUE]
             ELSE [w EXCEPT !.files = put, !.wrote = Append(@, <<feat, Len(entries)>>)]

\* the loop of main: for feat in sorted(features)
RECURSIVE regiondb_write(_, _, _)
regiondb_write(w, feats, rows) ==
    IF feats = <<>> \/ w.raised THEN w
    ELSE regiondb_write(regiondb_one(w, Head(feats), DictGet(rows, Head(feats))),
                        Tail(feats), rows)

\* mutant: with overwrite set the run starts from an emptied directory
WriteAll_clears_on_overwrite(c, fsys, b) ==
    IF c.script \in {"mito", "nuc"}
    THEN write_beds(c, WriteStart(IF c.overwrite THEN EmptyDict ELSE fsys), b.order, b.rows)
    ELSE regiondb_write(WriteStart(fsys), SortedFeatures, b.rows)

\* the run's write stage: the files after it, whether it raised, its reports
WriteAll(c, fsys, b) ==
    IF c.script \in {"mito", "nuc"} THEN write_beds(c, WriteStart(fsys), b.order, b.rows)
    ELSE regiondb_write(WriteStart(fsys), SortedFeatures, b.rows)

\* revmap = build_reverse_map(mapping) at the start of the run
RevMapOf(c) ==
    IF c.script = "mito" THEN build_reverse_map(c.mapping)
    ELSE IF c.script = "nuc" THEN build_reverse_map_nuc(c.mapping)
    ELSE EmptyDict

(***************************************************************************)
(* The runs.  A session is a sequence of invocations, each on the same     *)
(* annotation file and the same output directory.                          *)
(***************************************************************************)
NoInvocation ==
    [script |-> "none", mapping |-> <<>>, single_features |-> {},
     skip_mito |-> TRUE, overwrite |-> FALSE, outdir |-> <<>>, outside |-> EmptyDict]

InitWith(scenarios, dirs, runs) ==
    /\ \E sc \in scenarios :
          /\ \/ gff_exists = TRUE /\ gff \in sc.files
             \/ gff_exists = FALSE /\ gff = <<>>
          /\ allowed = sc.allowed
    /\ fs \in dirs
    /\ runsLeft = runs
    /\ pc = "idle"
    /\ cfg = NoInvocation
    /\ pos = 0
    /\ revmap = EmptyDict
    /\ beds = EmptyBeds
    /\ counters = EmptyDict
    /\ total_in = 0
    /\ total_emitted = 0
    /\ history = <<>>
    /\ failures = <<>>

\* mutant: the category files are opened for writing before the input is
files_truncated_before_open(c, fsys) == [p \in DOMAIN fsys |-> <<>>]

\* the files of the output directory when the run ends at the open of a path
\* that does not exist: the exception (sys.exit(1) in main of the nuclear
\* script) comes before the first open for writing
files_after_open_error(c, fsys) == fsys

\* the call of extract_mito_features / gff_to_beds / main up to the loop
StartRun ==
    /\ pc \in {"idle", "done", "failed"}
    /\ runsLeft > 0
    /\ gff_exists
    /\ \E c \in allowed :
          /\ cfg' = c
          /\ revmap' = RevMapOf(c)
    /\ runsLeft' = runsLeft - 1
    /\ pc' = "read"
    /\ pos' = 1
    /\ beds' = EmptyBeds
    /\ counters' = EmptyDict
    /\ total_in' = 0
    /\ total_emitted' = 0
    /\ UNCHANGED <<gff, gff_exists, allowed, fs, history, failures>>

\* the same call on a path that does not exist: open() raises (main of the
\* nuclear script exits before the call), the run ends there
FailRun ==
    /\ pc \in {"idle", "done", "failed"}
    /\ runsLeft > 0
    /\ ~gff_exists
    /\ \E c \in allowed :
          /\ cfg' = c
          /\ revmap' = RevMapOf(c)
          /\ fs' = files_after_open_error(c, fs)
          /\ failures' = Append(failures, [cfg |-> c, before |-> fs, after |-> fs',
                                            beds |-> EmptyBeds, error |-> "open",
                                            left |-> runsLeft - 1])
    /\ runsLeft' = runsLeft - 1
    /\ pc' = "failed"
    /\ pos' = 0
    /\ beds' = EmptyBeds
    /\ counters' = EmptyDict
    /\ total_in' = 0
    /\ total_emitted' = 0
    /\ UNCHANGED <<gff, gff_exists, allowed, history>>

\* one pass of the loop over the lines of the file
ProcessLine ==
    /\ pc = "read"
    /\ pos <= Len(gff)
    /\ \E st \in {StepLine(cfg,
                           [revmap |-> revmap, beds |-> beds, counters |-> counters,
                            total_in |-> total_in, total_emitted |-> total_emitted],
                           gff[pos])} :
          /\ revmap' = st.revmap
          /\ beds' = st.beds
          /\ counters' = st.counters
          /\ total_in' = st.total_in
          /\ total_emitted' = st.total_emitted
    /\ pos' = pos + 1
    /\ UNCHANGED <<gff, gff_exists, allowed, fs, runsLeft, pc, cfg, history, failures>>

\* end of file: the buffers are written and the run returns with its
\* reports and totals printed, or the write stage raises and the run ends
\* there, the files written before the error left as they are
WriteOut ==
    /\ pc = "read"
    /\ pos > Len(gff)
    /\ \E w \in {WriteAll(cfg, fs, beds)} :
          /\ fs' = w.files
          /\ IF w.raised
             THEN /\ pc' = "failed"
                  /\ failures' = Append(failures,
                                        [cfg |-> cfg, before |-> fs, after |-> w.files,
                                         beds |-> beds, error |-> "write",
                                         left |-> runsLeft])
                  /\ history' = history
             ELSE /\ pc' = "done"
                  /\ failures' = failures
                  /\ history' = Append(history,
                                       [cfg |-> cfg, before |-> fs, after |-> w.files,
                                        beds |-> beds, counters |-> counters,
                                        total_in |-> total_in,
                                        total_emitted |-> total_emitted,
                                        wrote |-> w.wrote, left |-> runsLeft])
    /\ UNCHANGED <<gff, gff_exists, allowed, runsLeft, cfg, pos, revmap, beds, counters,
                   total_in, total_emitted>>

Next == StartRun \/ FailRun \/ ProcessLine \/ WriteOut

(***************************************************************************)
(* Inputs.                                                                 *)
(***************************************************************************)
SeqsUpTo(S, n) == UNION {[1..k -> S] : k \in 0..n}

S_src == <<"s","r","c">>

\* a 9-column record
Record(seqid, ftype, start_s, end_s, score, strand, attrs) ==
    <<seqid, S_src, ftype, start_s, end_s, score, strand, <<".">>, attrs>>

BlankLine == << <<>> >>

CommentLine == << <<"#","c">>, <<"x">> >>

ShortLine(seqid) == <<seqid, S_src, S_gene, <<"1">>, <<"9">>>>

S_chr1 == <<"c","h","r","1">>

\* a mapping with fan-out (gene is under two keys) and a passthrough type
S_all == <<"a","l","l">>

S_exon == <<"e","x","o","n">>

FanOutMapping == << <<S_gene, <<S_gene>>>>, <<S_all, <<S_gene, S_tRNA_gene>>>> >>

\* a mapping whose first value is the string "gene", not a list
StrValueMapping == << <<S_gene, S_gene, "str">>, <<S_all, <<S_gene, S_tRNA_gene>>>> >>

\* a mapping that lists the type gene twice under the key gene
RepeatMapping == << <<S_gene, <<S_gene, S_gene>>>>, <<S_all, <<S_gene, S_tRNA_gene>>>> >>

\* keys that are paths: "./gene" names the file of the key "gene", "a/b" a
\* file in a directory that does not exist, "../x" a file next to the output
\* directory
S_dot_gene == <<".","/","g","e","n","e">>

S_a_b == <<"a","/","b">>

S_up_x == <<".",".","/","x">>

PathMapping ==
    << <<S_gene, <<S_gene>>>>,
       <<S_dot_gene, <<S_gene, S_exon>>>>,
       <<S_up_x, <<S_exon>>>>,
       <<S_a_b, <<S_tRNA_gene>>>>,
       <<S_all, <<S_tRNA_gene, S_exon>>>> >>

\* --outdir of the two scripts with a command line (default "regionDB"),
\* OUTDIR of the third
OutDirOf(script) ==
    IF script = "regiondb"
    THEN <<".","/","c","h","r","_","r","e","g","i","o","n","s","/">>
    ELSE <<"r","e","g","i","o","n","D","B">>

Invocation(script, mapping, single, skip, ow) ==
    [script |-> script, mapping |-> mapping, single_features |-> single,
     skip_mito |-> skip, overwrite |-> ow, outdir |-> OutDirOf(script),
     outside |-> EmptyDict]

Scenario(lines, n, invs) == [files |-> SeqsUpTo(lines, n), allowed |-> invs]

MitoDefault(ow) == Invocation("mito", FEATURE_MAPPING_mito, SINGLE_FEATURES, TRUE, ow)

NucFanOut(skip, ow) == Invocation("nuc", FanOutMapping, SINGLE_FEATURES, skip, ow)

RegionDb == Invocation("regiondb", <<>>, {}, TRUE, FALSE)

\* a run with the path keys, in a place where "../x.bed" can be written
PathKeys(script, ow) ==
    [Invocation(script, PathMapping, {}, TRUE, ow)
        EXCEPT !.outside = DictSet(EmptyDict, S_up_x, "outside")]

(***************************************************************************)
(* Coordinate scenarios: records that differ in their start and end        *)
(* columns, short lines, blank lines, comments; one run of each script.    *)
(***************************************************************************)
CoordPairs ==
    { <<<<"1">>, <<"1","0">>>>,          \* 1..10
      <<<<"0">>, <<"5">>>>,              \* start 0
      <<<<"-","3">>, <<"4">>>>,          \* negative start
      <<<<"1","2">>, <<"2">>>>,          \* end < start
      <<<<"x">>, <<"1","0">>>>,          \* start is no integer
      <<<<"1">>, <<>>>>,                 \* end is no integer
      <<<<" ","2">>, <<"8","\f">>>> }    \* whitespace around the digits

CoordLines(seqid) ==
    {Record(seqid, S_gene, p[1], p[2], <<".">>, <<"+">>, <<"I","D","=","G","1">>) :
        p \in CoordPairs}
    \cup {ShortLine(seqid), BlankLine, CommentLine}

CoordScenarios ==
    { Scenario(CoordLines(S_Mito), MaxCoordLines, {MitoDefault(FALSE)}),
      Scenario(CoordLines(S_chr1), MaxCoordLines, {NucFanOut(TRUE, FALSE)}),
      Scenario(CoordLines(S_chr1), MaxCoordLines, {RegionDb}) }

(***************************************************************************)
(* Name scenarios: gene records that differ in their attribute column.     *)
(***************************************************************************)
NameAttrs ==
    { <<".">>,
      <<"N","o","t","e","=","x">>,
      <<"I","D","=","G","1">>,
      <<"N","a","m","e","=",";","I","D","=","G","2">>,
      <<"N","a","m","e","=","N","1",";","I","D","=","G","1">>,
      <<"I","D","R","E","F","=","r","1",";","g","e","n","e","=","g","1">>,
      <<"g","e","n","e","=","g","1">>,
      <<"N","a","m","e"," ","\"","Q","\"">> }

NameLines(seqid) ==
    {Record(seqid, S_gene, <<"1">>, <<"1","0">>, <<".">>, <<"+">>, a) : a \in NameAttrs}

NameScenarios ==
    { Scenario(NameLines(S_Mito), MaxNameLines, {MitoDefault(FALSE)}),
      Scenario(NameLines(S_chr1), MaxNameLines, {NucFanOut(TRUE, FALSE)}) }

InitName == InitWith(NameScenarios, {EmptyDict}, 1)

SpecName == InitName /\ [][Next]_vars

(***************************************************************************)
(* Partition scenarios: gene records that differ in their contig; the      *)
(* organelle script and the nuclear script run on the same file.           *)
(***************************************************************************)
PartContigs ==
    { S_Mito,
      <<"m","i","t","o">>,
      <<"M","T">>,
      <<"c","h","r","M">>,
      <<"M","i","t","o"," ">>,
      <<"x","m","t">>,
      S_chr1 }

PartLines ==
    {Record(s, S_gene, <<"1">>, <<"1","0">>, <<".">>, <<"+">>, <<"I","D","=","G","1">>) :
        s \in PartContigs}

PartScenarios ==
    { Scenario(PartLines, MaxPartLines,
               {MitoDefault(FALSE), NucFanOut(TRUE, FALSE), NucFanOut(FALSE, FALSE)}) }

InitPartition == InitWith(PartScenarios, {EmptyDict}, 2)

SpecPartition == InitPartition /\ [][Next]_vars

(***************************************************************************)
(* Category scenarios: records that differ in their feature type (and, to  *)
(* tell their rows apart, in coordinates and ID), under the mappings of    *)
(* the scripts and a mapping with fan-out, with and without passthrough    *)
(* types.                                                                  *)
(***************************************************************************)
MapLines(seqid) ==
    { Record(seqid, S_gene, <<"5">>, <<"2","0">>, <<".">>, <<"-">>, <<"I","D","=","G","2">>),
      Record(seqid, S_tRNA_gene, <<"7">>, <<"3","0">>, <<"3">>, <<"+">>, <<"I","D","=","T","1">>),
      Record(seqid, S_ARS, <<"1">>, <<"9">>, <<".">>, <<".">>, <<".">>),
      Record(seqid, S_exon, <<"2">>, <<"3">>, <<".">>, <<"?">>, <<"I","D","=","E">>),
      Record(seqid, S_chromosome, <<"1">>, <<"9","9">>, <<".">>, <<".">>, <<"I","D","=","c","h","r","I">>) }

MapScenarios ==
    { Scenario(MapLines(S_Mito), MaxMapLines, {MitoDefault(FALSE)}),
      Scenario(MapLines(S_Mito), MaxMapLines,
               {Invocation("mito", FanOutMapping, {S_ARS, S_gene}, TRUE, FALSE)}),
      Scenario(MapLines(S_Mito), MaxMapLines,
               {Invocation("mito", FanOutMapping, {}, TRUE, FALSE)}),
      Scenario(MapLines(S_Mito), MaxMapLines,
               {Invocation("mito", StrValueMapping, {S_ARS}, TRUE, FALSE)}),
      Scenario(MapLines(S_chr1), MaxMapLines,
               {Invocation("nuc", StrValueMapping, {S_ARS}, TRUE, FALSE)}),
      Scenario(MapLines(S_chr1), MaxMapLines,
               {Invocation("nuc", FEATURE_MAPPING_nuc, SINGLE_FEATURES, TRUE, FALSE)}),
      Scenario(MapLines(S_chr1), MaxMapLines,
               {Invocation("nuc", FanOutMapping, {S_ARS, S_gene}, TRUE, FALSE)}),
      Scenario(MapLines(S_chr1), MaxMapLines,
               {Invocation("nuc", FanOutMapping, {}, TRUE, FALSE)}),
      Scenario(MapLines(S_Mito), MaxMapLines,
               {Invocation("mito", RepeatMapping, {S_ARS}, TRUE, FALSE)}),
      Scenario(MapLines(S_chr1), MaxMapLines,
               {Invocation("nuc", RepeatMapping, {S_ARS}, TRUE, FALSE)}),
      Scenario(MapLines(S_Mito), MaxMapLines, {PathKeys("mito", FALSE)}),
      Scenario(MapLines(S_chr1), MaxMapLines, {PathKeys("nuc", FALSE)}) }

InitMap == InitWith(MapScenarios, {EmptyDict}, 1)

SpecMap == InitMap /\ [][Next]_vars

(***************************************************************************)
(* Re-run scenarios: the same script run up to MaxRuns times on the same   *)
(* file and the same output directory, with or without --overwrite, the    *)
(* directory empty or holding files of an earlier session; under the       *)
(* fan-out mapping and under a mapping whose keys are paths.               *)
(***************************************************************************)
RerunLines(seqid) ==
    { Record(seqid, S_gene, <<"1">>, <<"1","0">>, <<".">>, <<"+">>, <<"I","D","=","G","1">>),
      Record(seqid, S_tRNA_gene, <<"5">>, <<"2","0">>, <<"7">>, <<"-">>, <<"I","D","=","T","1">>),
      Record(seqid, S_exon, <<"2">>, <<"3">>, <<".">>, <<".">>, <<"I","D","=","E">>) }

RerunScenarios ==
    { Scenario(RerunLines(S_Mito), MaxRerunLines, {MitoDefault(TRUE), MitoDefault(FALSE)}),
      Scenario(RerunLines(S_chr1), MaxRerunLines,
               {NucFanOut(TRUE, TRUE), NucFanOut(TRUE, FALSE)}),
      Scenario(RerunLines(S_Mito), MaxRerunLines,
               {PathKeys("mito", TRUE), PathKeys("mito", FALSE)}),
      Scenario(RerunLines(S_chr1), MaxRerunLines,
               {PathKeys("nuc", TRUE), PathKeys("nuc", FALSE)}) }

OldLine == << <<"o","l","d">>, <<"0">>, <<"1">>, <<"o">>, <<"0">>, <<".">> >>

StaleDir ==
    DictSet(DictSet(EmptyDict, S_gene \o S_bed, <<OldLine>>),
            S_tRNA_gene \o S_bed, <<OldLine, OldLine>>)

InitRerun == InitWith(RerunScenarios, {EmptyDict, StaleDir}, MaxRuns)

SpecRerun == InitRerun /\ [][Next]_vars

Init == InitWith(CoordScenarios, {EmptyDict}, 1)

Spec == Init /\ [][Next]_vars

(***************************************************************************)
(* What the properties below say about an input line, read off the line    *)
(* itself.                                                                 *)
(***************************************************************************)
IsComment(cols) == cols[1] # <<>> /\ cols[1][1] = "#"

\* the number an integer of the program stands for
RECURSIVE MagVal(_)
MagVal(m) == IF m = <<>> THEN 0 ELSE 10 * MagVal(SubSeq(m, 1, Len(m) - 1)) + m[Len(m)]

IntVal(n) == IF n.neg THEN 0 - MagVal(n.mag) ELSE MagVal(n.mag)

IntsParse(cols) == ParseInt(cols[4]).ok /\ ParseInt(cols[5]).ok

\* a per-record fault: too few fields, or a coordinate that is no integer
Faulty(cols) == Len(cols) < 9 \/ ~IntsParse(cols)

PassesPartition(c, cols) ==
    IF c.script = "mito" THEN cols[1] = S_Mito
    ELSE ~(c.skip_mito /\ is_mito(cols[1]))

Range(s) == {s[i] : i \in 1..Len(s)}

\* the types an item of the mapping lists: its list, or its one string
TypesOfItem(item) ==
    IF IsListItem(item) THEN item[2]
    ELSE IF IsStrItem(item) THEN <<item[2]>>
    ELSE <<>>

\* the <<key, type>> pairs the mapping lists, in its order
RECURSIVE Listings(_)
Listings(mapping) ==
    IF mapping = <<>> THEN <<>>
    ELSE LET types == TypesOfItem(Head(mapping))
         IN  [i \in 1..Len(types) |-> <<Head(mapping)[1], types[i]>>]
             \o Listings(Tail(mapping))

\* the keys of the mapping whose type list holds t, in the order of the
\* mapping, each once for every time its list holds t
ListedKeys(c, t) ==
    LET hit == SelectSeq(Listings(c.mapping), LAMBDA pair : pair[2] = t)
    IN  [i \in 1..Len(hit) |-> hit[i][1]]

\* the categories of a record of type t
KeysOfType(c, t) ==
    IF ListedKeys(c, t) # <<>> THEN Range(ListedKeys(c, t))
    ELSE IF t \in c.single_features THEN {t}
    ELSE {}

AllKeys(c) == {c.mapping[i][1] : i \in 1..Len(c.mapping)} \cup c.single_features

\* the record is emitted by a run of extract_mito_features or gff_to_beds
Emitted(c, cols) ==
    /\ ~IsComment(cols)
    /\ Len(cols) >= 9
    /\ PassesPartition(c, cols)
    /\ IntsParse(cols)
    /\ KeysOfType(c, cols[3]) # {}

\* the lines the run has read so far
LinesRead == SubSeq(gff, 1, pos - 1)

InRun == pc \in {"read", "done"}

RowsOf(key) == DictGet(beds.rows, key)

\* a run that reached its write stage, as the properties below read it
StageOf(r, raised) ==
    [cfg |-> r.cfg, before |-> r.before, after |-> r.after, beds |-> r.beds,
     left |-> r.left, raised |-> raised]

\* the runs that reached their write stage: the completed runs, and the runs
\* their write stage ended with an error
WriteStages ==
    {StageOf(history[n], FALSE) : n \in 1..Len(history)}
    \cup {StageOf(failures[n], TRUE) :
              n \in {m \in 1..Len(failures) : failures[m].error = "write"}}

\* the key names the file f of the output directory
Names(c, k, f) == open_target(c, k) = [kind |-> "inside", name |-> f]

\* the file of the key cannot be opened
Refused(c, k) == open_target(c, k).kind = "error"

\* the categories whose file the write stage opens: those it reaches before
\* the first that is refused
Opened(h) ==
    LET bad == SelectSeq([i \in 1..Len(h.beds.order) |-> i],
                         LAMBDA i : Refused(h.cfg, h.beds.order[i]))
    IN  IF bad = <<>> THEN h.beds.order ELSE SubSeq(h.beds.order, 1, bad[1] - 1)

\* the categories among keys that name the file f, in their order
WritersOf(h, keys, f) == SelectSeq(keys, LAMBDA k : Names(h.cfg, k, f))

Last(s) == s[Len(s)]

\* start0 and end of a buffered row, as integers
RowStart(c, row) ==
    IF c.script = "mito" THEN IntVal(ParseInt(row[2]).val) ELSE IntVal(row[2])

RowEnd(c, row) ==
    IF c.script = "mito" THEN IntVal(ParseInt(row[3]).val) ELSE IntVal(row[3])

(***************************************************************************)
(* C2: every record emitted by extract_mito_features or gff_to_beds gives, *)
(* in each of its categories, one row with start0 = max(0, start - 1) and  *)
(* end = the source end, whatever the integers are (start <= 0 and         *)
(* end < start included: such a record is emitted like any other).         *)
(***************************************************************************)
C2_CoordinatesPassThrough ==
    (InRun /\ cfg.script \in {"mito", "nuc"}) =>
        \A k \in AllKeys(cfg) :
            LET src == SelectSeq(LinesRead,
                                 LAMBDA cols : Emitted(cfg, cols) /\ k \in KeysOfType(cfg, cols[3]))
            IN  /\ Len(RowsOf(k)) = Len(src)
                /\ \A i \in 1..Len(src) :
                      LET start == IntVal(ParseInt(src[i][4]).val)
                          end == IntVal(ParseInt(src[i][5]).val)
                      IN  /\ RowStart(cfg, RowsOf(k)[i]) = (IF start - 1 > 0 THEN start - 1 ELSE 0)
                          /\ RowEnd(cfg, RowsOf(k)[i]) = end

\* a run that has emitted a record with start <= 0 and a record with end < start
C2_Witness ==
    /\ pc = "done"
    /\ cfg.script \in {"mito", "nuc"}
    /\ \E i \in 1..Len(gff) :
          Emitted(cfg, gff[i]) /\ IntVal(ParseInt(gff[i][4]).val) < 0
    /\ \E i \in 1..Len(gff) :
          Emitted(cfg, gff[i])
          /\ IntVal(ParseInt(gff[i][5]).val) < IntVal(ParseInt(gff[i][4]).val)
    /\ Len(RowsOf(S_gene)) >= 2

(***************************************************************************)
(* C3: no extraction path puts a row with a negative start0 into a         *)
(* category buffer.  parse_gff of the nuclear regionDB script computes     *)
(* start - 1 without the clamp, so a start of 0 or less breaks it.         *)
(***************************************************************************)
C3_Start0NonNegative ==
    InRun => \A k \in DOMAIN beds.rows :
                \A i \in 1..Len(beds.rows[k]) : RowStart(cfg, beds.rows[k][i]) >= 0

(***************************************************************************)
(* C10: a record with fewer than 9 fields, or whose start or end is no     *)
(* integer, adds no row and changes nothing for the other records: the     *)
(* buffers and the name counters are those of the same input without the   *)
(* faulty records, and so are the files and the reports of the write       *)
(* stage.                                                                  *)
(***************************************************************************)
WithoutFaulty(lines) == SelectSeq(lines, LAMBDA cols : ~Faulty(cols))

C10_FaultsRecoveredLocally ==
    /\ InRun =>
          LET clean == RunLines(cfg, NewRun(RevMapOf(cfg)), WithoutFaulty(LinesRead))
          IN  beds = clean.beds /\ counters = clean.counters
    /\ \A n \in 1..Len(history) :
          LET h == history[n]
              clean == WriteAll(h.cfg, h.before,
                                RunLines(h.cfg, NewRun(RevMapOf(h.cfg)),
                                         WithoutFaulty(gff)).beds)
          IN  h.after = clean.files /\ ~clean.raised /\ h.wrote = clean.wrote
    /\ \A n \in 1..Len(failures) :
          failures[n].error = "write" =>
              LET h == failures[n]
                  clean == WriteAll(h.cfg, h.before,
                                    RunLines(h.cfg, NewRun(RevMapOf(h.cfg)),
                                             WithoutFaulty(gff)).beds)
              IN  h.after = clean.files /\ clean.raised

\* a finished run over a good record, a record with a bad coordinate, a good record
C10_Witness ==
    /\ pc = "done"
    /\ Len(gff) = 3
    /\ ~Faulty(gff[1]) /\ Emitted(cfg, gff[1])
    /\ Len(gff[2]) >= 9 /\ ~IntsParse(gff[2])
    /\ ~Faulty(gff[3]) /\ Emitted(cfg, gff[3])
    /\ Len(RowsOf(S_gene)) = 2

(***************************************************************************)
(* Names.                                                                  *)
(***************************************************************************)
\* the attribute mapping the run's script reads from the record
AttrsOf(c, cols) ==
    IF c.script = "mito" THEN parse_attrs_mito(cols[9]) ELSE parse_attrs_nuc(cols[9])

NameKeys == <<S_Name, S_ID, S_IDREF, S_gene>>

\* the places in NameKeys of the attributes present with a non-empty value
Usable(attrd) == {i \in 1..4 : NameKeys[i] \in DOMAIN attrd /\ attrd[NameKeys[i]] # <<>>}

\* the attributes contain none of Name, ID, IDREF, gene
LacksNameAttrs(c, cols) == DOMAIN AttrsOf(c, cols) \cap Range(NameKeys) = {}

GeneWithoutNameAttrs(c, cols) ==
    Emitted(c, cols) /\ cols[3] = S_gene /\ LacksNameAttrs(c, cols)

NamesOf(key) == [i \in 1..Len(RowsOf(key)) |-> RowsOf(key)[i][4]]

S_gene_n(n) == S_gene \o <<"_">> \o IntToStr(n)

(***************************************************************************)
(* C1, as claimed: three consecutive gene records without Name, ID, IDREF  *)
(* and gene attributes are named gene_1, gene_2, gene_3.                   *)
(***************************************************************************)
C1_NumberedFallback ==
    ( /\ pc = "done"
      /\ cfg.script \in {"mito", "nuc"}
      /\ Len(gff) = 3
      /\ \A i \in 1..3 : GeneWithoutNameAttrs(cfg, gff[i]) )
    => NamesOf(S_gene) = <<S_gene_n(1), S_gene_n(2), S_gene_n(3)>>

(***************************************************************************)
(* C1, amended: consecutive gene records without Name, ID, IDREF and gene  *)
(* attributes are each named by the feature type, "gene"; the numbered     *)
(* fallback is not reached and no counter is touched.                      *)
(***************************************************************************)
C1_FeatureTypeIsTheName ==
    ( /\ InRun
      /\ cfg.script \in {"mito", "nuc"}
      /\ \A i \in 1..Len(LinesRead) : GeneWithoutNameAttrs(cfg, LinesRead[i]) )
    => /\ NamesOf(S_gene) = [i \in 1..Len(LinesRead) |-> S_gene]
       /\ counters = EmptyDict

\* a finished run over three such records
C1_Witness ==
    /\ pc = "done"
    /\ cfg.script \in {"mito", "nuc"}
    /\ Len(gff) = 3
    /\ \A i \in 1..3 : GeneWithoutNameAttrs(cfg, gff[i])
    /\ Len(RowsOf(S_gene)) = 3

(***************************************************************************)
(* C9: the name of a record with a non-empty feature type is the value of  *)
(* the first of Name, ID, IDREF, gene that is present and not empty, and   *)
(* the feature type when there is none.                                    *)
(***************************************************************************)
PriorityName(attrd, ftype) ==
    IF Usable(attrd) = {} THEN ftype
    ELSE attrd[NameKeys[CHOOSE i \in Usable(attrd) : \A j \in Usable(attrd) : i <= j]]

C9_NamePriority ==
    (InRun /\ cfg.script \in {"mito", "nuc"}) =>
        \A k \in AllKeys(cfg) :
            LET src == SelectSeq(LinesRead,
                                 LAMBDA cols : Emitted(cfg, cols) /\ k \in KeysOfType(cfg, cols[3]))
            IN  /\ Len(RowsOf(k)) = Len(src)
                /\ \A i \in 1..Len(src) :
                      src[i][3] # <<>> =>
                          NamesOf(k)[i] = PriorityName(AttrsOf(cfg, src[i]), src[i][3])

\* a finished run with a record whose empty Name gave way to its ID, and one named by its type
C9_Witness ==
    /\ pc = "done"
    /\ cfg.script \in {"mito", "nuc"}
    /\ \E i \in 1..Len(gff) :
          /\ Emitted(cfg, gff[i])
          /\ S_Name \in DOMAIN AttrsOf(cfg, gff[i])
          /\ AttrsOf(cfg, gff[i])[S_Name] = <<>>
          /\ \E j \in 1..Len(RowsOf(S_gene)) : NamesOf(S_gene)[j] = AttrsOf(cfg, gff[i])[S_ID]
    /\ \E i \in 1..Len(gff) :
          /\ Emitted(cfg, gff[i])
          /\ Usable(AttrsOf(cfg, gff[i])) = {}
          /\ \E j \in 1..Len(RowsOf(S_gene)) : NamesOf(S_gene)[j] = gff[i][3]

(***************************************************************************)
(* C4: on the same input, no contig has a row both in a run of the         *)
(* organelle extraction (contig = "Mito") and in a run of the nuclear      *)
(* extraction with skip_mito set (contig not is_mito).                     *)
(***************************************************************************)
ContigsIn(b) == UNION {{b.rows[k][i][1] : i \in 1..Len(b.rows[k])} : k \in DOMAIN b.rows}

OrganelleRun(h) == h.cfg.script = "mito"

NuclearOnlyRun(h) == h.cfg.script = "nuc" /\ h.cfg.skip_mito

C4_PartitionsExclusive ==
    \A i, j \in 1..Len(history) :
        (OrganelleRun(history[i]) /\ NuclearOnlyRun(history[j]))
            => ContigsIn(history[i].beds) \cap ContigsIn(history[j].beds) = {}

\* both extractions have run on a file with a Mito record and a nuclear record, and both emitted
C4_Witness ==
    \E i, j \in 1..Len(history) :
        /\ OrganelleRun(history[i]) /\ NuclearOnlyRun(history[j])
        /\ ContigsIn(history[i].beds) # {}
        /\ ContigsIn(history[j].beds) # {}

(***************************************************************************)
(* Categories.                                                             *)
(***************************************************************************)
\* the record passes the partition filter and coordinate parsing
Accepted(c, cols) ==
    ~IsComment(cols) /\ Len(cols) >= 9 /\ PassesPartition(c, cols) /\ IntsParse(cols)

\* the type list of a key of the mapping (empty for any other key)
ListOf(c, k) ==
    IF \E i \in 1..Len(c.mapping) : c.mapping[i][1] = k
    THEN TypesOfItem(c.mapping[CHOOSE i \in 1..Len(c.mapping) : c.mapping[i][1] = k])
    ELSE <<>>

Unlisted(c, t) == \A i \in 1..Len(c.mapping) : t \notin Range(TypesOfItem(c.mapping[i]))

IsPassthrough(c, t) == Unlisted(c, t) /\ t \in c.single_features

\* rows a record of type t is due in category k, as claimed: one when the
\* list of k holds t
ShareClaimed(c, k, t) == IF t \in Range(ListOf(c, k)) THEN 1 ELSE 0

\* and as amended: one for every time the list of k holds t, and one in the
\* category t of a passthrough type
ShareAmended(c, k, t) ==
    Cardinality({i \in 1..Len(ListOf(c, k)) : ListOf(c, k)[i] = t})
    + (IF IsPassthrough(c, t) /\ k = t THEN 1 ELSE 0)

RECURSIVE RowsDue(_, _, _, _)
RowsDue(c, k, lines, amended) ==
    IF lines = <<>> THEN 0
    ELSE RowsDue(c, k, SubSeq(lines, 1, Len(lines) - 1), amended)
         + (IF Accepted(c, lines[Len(lines)])
            THEN IF amended THEN ShareAmended(c, k, lines[Len(lines)][3])
                 ELSE ShareClaimed(c, k, lines[Len(lines)][3])
            ELSE 0)

KeyUniverse == AllKeys(cfg) \cup DOMAIN beds.rows

\* the rows the p-th line read has put into category k
RowsFrom(k, p, amended) ==
    {RowsOf(k)[i] : i \in (RowsDue(cfg, k, SubSeq(LinesRead, 1, p - 1), amended) + 1)
                          .. RowsDue(cfg, k, SubSeq(LinesRead, 1, p), amended)}

FanOut(amended) ==
    (InRun /\ cfg.script \in {"mito", "nuc"}) =>
        /\ \A k \in KeyUniverse : Len(RowsOf(k)) = RowsDue(cfg, k, LinesRead, amended)
        /\ \A p \in 1..Len(LinesRead) :
              Cardinality(UNION {RowsFrom(k, p, amended) : k \in KeyUniverse}) <= 1

(***************************************************************************)
(* C5, as claimed: an accepted record puts exactly one row into each       *)
(* category whose type list holds its feature type and none into any       *)
(* other category, and its rows are identical.                             *)
(***************************************************************************)
C5_OneRowPerListedKey == FanOut(FALSE)

(***************************************************************************)
(* C5, amended: an accepted record puts into each category whose type      *)
(* list holds its feature type one row for every time the list holds it    *)
(* (exactly one when the list holds it once), exactly one row into the     *)
(* category named by its type when the type is in no list and is a         *)
(* passthrough type, and none into any other category; its rows are        *)
(* identical.                                                              *)
(***************************************************************************)
C5_FanOut == FanOut(TRUE)

\* a finished run under the mapping that lists gene twice under the key gene
\* and once under the key all: the passthrough record has its one row in the
\* category of its own name, the gene record two rows in gene and one in all,
\* the three alike
C5_Witness ==
    /\ pc = "done"
    /\ cfg.mapping = RepeatMapping
    /\ Len(gff) = 2
    /\ Accepted(cfg, gff[1]) /\ gff[1][3] = S_ARS /\ IsPassthrough(cfg, S_ARS)
    /\ Accepted(cfg, gff[2]) /\ gff[2][3] = S_gene
    /\ Len(RowsOf(S_ARS)) = 1
    /\ Len(RowsOf(S_gene)) = 2
    /\ Len(RowsOf(S_all)) = 1
    /\ RowsOf(S_gene)[1] = RowsOf(S_gene)[2]
    /\ RowsOf(S_gene)[1] = RowsOf(S_all)[1]
    /\ RowsOf(S_ARS)[1] # RowsOf(S_all)[1]

(***************************************************************************)
(* C8: a record of type t goes to the keys whose type list holds t, in the *)
(* order of the mapping; to the category t alone when t is in no list and  *)
(* is a passthrough type; nowhere otherwise, and then no row is buffered   *)
(* and no file is created, changed or reported for it.                     *)
(***************************************************************************)
\* the categories of a record of type t, in order
KeySeq(c, t) ==
    IF ListedKeys(c, t) # <<>> THEN ListedKeys(c, t)
    ELSE IF t \in c.single_features THEN <<t>>
    ELSE <<>>

RECURSIVE AddNew(_, _)
AddNew(seen, keys) ==
    IF keys = <<>> THEN seen
    ELSE AddNew(IF Head(keys) \in Range(seen) THEN seen ELSE Append(seen, Head(keys)),
                Tail(keys))

\* the categories reached by the lines, in the order they are first reached
RECURSIVE FirstReached(_, _, _)
FirstReached(c, seen, lines) ==
    IF lines = <<>> THEN seen
    ELSE FirstReached(c,
                      IF Accepted(c, Head(lines)) THEN AddNew(seen, KeySeq(c, Head(lines)[3]))
                      ELSE seen,
                      Tail(lines))

C8_CategoryLookup ==
    /\ (InRun /\ cfg.script \in {"mito", "nuc"}) =>
          /\ beds.order = FirstReached(cfg, <<>>, LinesRead)
          /\ \A k \in DOMAIN beds.rows : beds.rows[k] # <<>>
    /\ \A h \in WriteStages :
          h.cfg.script \in {"mito", "nuc"} =>
              \A f \in DOMAIN h.after :
                  (f \notin DOMAIN h.before \/ h.after[f] # h.before[f]) =>
                      \E k \in Range(FirstReached(h.cfg, <<>>, gff)) : Names(h.cfg, k, f)
    /\ \A n \in 1..Len(history) :
          history[n].cfg.script \in {"mito", "nuc"} =>
              \A j \in 1..Len(history[n].wrote) :
                  history[n].wrote[j][1] \in Range(FirstReached(history[n].cfg, <<>>, gff))

\* a finished run over a passthrough record and a record of an unmapped type:
\* one category, named by the passthrough type, and its file alone
C8_Witness ==
    /\ pc = "done"
    /\ Len(gff) = 2
    /\ Accepted(cfg, gff[1]) /\ gff[1][3] = S_exon /\ KeySeq(cfg, S_exon) = <<>>
    /\ Accepted(cfg, gff[2]) /\ gff[2][3] = S_ARS /\ IsPassthrough(cfg, S_ARS)
    /\ beds.order = <<S_ARS>>
    /\ DOMAIN fs = {S_ARS \o S_bed}

(***************************************************************************)
(* Files over a sequence of runs.                                          *)
(***************************************************************************)
\* the lines a run writes for the rows of one category
TextOf(c, rows) == IF c.script = "mito" THEN rows ELSE nuc_text(rows)

\* the lines a run writes for the rows of the categories keys, one after another
RECURSIVE TextsOf(_, _)
TextsOf(h, keys) ==
    IF keys = <<>> THEN <<>>
    ELSE TextOf(h.cfg, h.beds.rows[Head(keys)]) \o TextsOf(h, Tail(keys))

Populated(h) == DOMAIN h.beds.rows

\* the files of the output directory that the categories keys name
FilesOf(h, keys) ==
    LET target == [i \in 1..Len(keys) |-> open_target(h.cfg, keys[i])]
    IN  {target[i].name : i \in {j \in 1..Len(keys) : target[j].kind = "inside"}}

RECURSIVE Repeat(_, _)
Repeat(s, n) == IF n = 0 THEN <<>> ELSE s \o Repeat(s, n - 1)

(***************************************************************************)
(* C6: two runs in a row with overwrite set, on the same input and output  *)
(* directory, leave every file after the second run as it was after the    *)
(* first, whatever the directory held before, whether the keys name one    *)
(* file each or share a file, and whether the runs complete or end at a    *)
(* file that cannot be opened.                                             *)
(***************************************************************************)
C6_OverwriteIdempotent ==
    \A a, b \in WriteStages :
        ( /\ a.cfg.script \in {"mito", "nuc"}
          /\ a.cfg.overwrite
          /\ b.cfg = a.cfg
          /\ b.left = a.left - 1 )
        => b.after = a.after

\* two overwriting runs in a row, under keys that share a file, that replaced
\* a file an earlier session had left
C6_Witness ==
    /\ Len(history) >= 2
    /\ history[1].cfg.overwrite /\ history[2].cfg = history[1].cfg
    /\ history[2].left = history[1].left - 1
    /\ S_gene \in Populated(history[1])
    /\ S_dot_gene \in Populated(history[1])
    /\ (S_gene \o S_bed) \in DOMAIN history[1].before
    /\ history[1].after[S_gene \o S_bed] # history[1].before[S_gene \o S_bed]
    /\ history[2].after[S_gene \o S_bed] = history[1].after[S_gene \o S_bed]

(***************************************************************************)
(* C7, as claimed: a completed run truncates the file of a category it     *)
(* writes iff overwrite is set or the file did not exist before the run;   *)
(* otherwise the file keeps its content and the category's rows follow it; *)
(* so k runs without overwrite into an empty directory leave the           *)
(* category's rows k times in its file.                                    *)
(***************************************************************************)
C7_WriteMode ==
    /\ \A n \in 1..Len(history) :
          history[n].cfg.script \in {"mito", "nuc"} =>
              \A k \in Populated(history[n]) :
                  LET h == history[n]
                      f == open_target(h.cfg, k).name
                      text == TextOf(h.cfg, h.beds.rows[k])
                  IN  open_target(h.cfg, k).kind = "inside" =>
                          /\ f \in DOMAIN h.after
                          /\ IF h.cfg.overwrite \/ f \notin DOMAIN h.before
                             THEN h.after[f] = text
                             ELSE h.after[f] = h.before[f] \o text
    /\ ( /\ Len(history) >= 1
         /\ failures = <<>>
         /\ history[1].before = EmptyDict
         /\ \A n \in 1..Len(history) :
               /\ history[n].cfg.script \in {"mito", "nuc"}
               /\ history[n].cfg = history[1].cfg
               /\ ~history[n].cfg.overwrite )
       => \A k \in Populated(history[1]) :
             open_target(history[1].cfg, k).kind = "inside" =>
                 /\ open_target(history[1].cfg, k).name \in DOMAIN fs
                 /\ fs[open_target(history[1].cfg, k).name] =
                        Repeat(TextOf(history[1].cfg, history[1].beds.rows[k]), Len(history))

(***************************************************************************)
(* C7, amended: each time a run opens the file of a category, the file is  *)
(* truncated iff overwrite is set or the file does not exist at that       *)
(* moment: it was not there before the run and no category written earlier *)
(* in the run names it.  Otherwise the file keeps its content and the      *)
(* category's rows follow it, none left out.  So after a run with          *)
(* overwrite a file holds the rows of the last category written that names *)
(* it, after a run without overwrite what it held before and then the rows *)
(* of all the categories written that name it, in the order they were      *)
(* written; and k completed runs of the same invocation without overwrite  *)
(* into an empty directory leave in each file, k times, the rows one run   *)
(* writes to it.                                                           *)
(***************************************************************************)
C7_WriteModeAtOpen ==
    /\ \A h \in WriteStages :
          h.cfg.script \in {"mito", "nuc"} =>
              \A f \in FilesOf(h, Opened(h)) :
                  LET keys == WritersOf(h, Opened(h), f)
                  IN  /\ f \in DOMAIN h.after
                      /\ h.after[f] =
                            IF h.cfg.overwrite
                            THEN TextOf(h.cfg, h.beds.rows[Last(keys)])
                            ELSE IF f \notin DOMAIN h.before THEN TextsOf(h, keys)
                            ELSE h.before[f] \o TextsOf(h, keys)
    /\ ( /\ Len(history) >= 1
         /\ failures = <<>>
         /\ history[1].before = EmptyDict
         /\ \A n \in 1..Len(history) :
               /\ history[n].cfg.script \in {"mito", "nuc"}
               /\ history[n].cfg = history[1].cfg
               /\ ~history[n].cfg.overwrite )
       => LET h == StageOf(history[1], FALSE)
          IN  \A f \in FilesOf(h, h.beds.order) :
                  /\ f \in DOMAIN fs
                  /\ fs[f] = Repeat(TextsOf(h, WritersOf(h, h.beds.order, f)), Len(history))

\* three runs without overwrite into an empty directory, under the keys "gene"
\* and "./gene": gene.bed holds three times the rows of "./gene" and then
\* those of "gene"
C7_Witness ==
    /\ Len(history) = 3
    /\ history[1].before = EmptyDict
    /\ \A n \in 1..3 : ~history[n].cfg.overwrite
    /\ history[1].beds.order = <<S_dot_gene, S_up_x, S_all, S_gene>>
    /\ Len(history[1].beds.rows[S_dot_gene]) = 2
    /\ Len(history[1].beds.rows[S_gene]) = 1
    /\ Len(fs[S_gene \o S_bed]) = 9
    /\ fs[S_gene \o S_bed][3] = fs[S_gene \o S_bed][2]
    /\ fs[S_gene \o S_bed][4] = fs[S_gene \o S_bed][1]
    /\ fs[S_gene \o S_bed][1] # fs[S_gene \o S_bed][2]

(***************************************************************************)
(* C13: a run of extract_mito_features or of the nuclear script on an      *)
(* annotation path that does not exist ends with an error and never        *)
(* reaches the write stage: the output directory holds the same files with *)
(* the same content as before the run (none created, truncated or          *)
(* appended to), with or without overwrite, and no run on such a path      *)
(* completes.                                                              *)
(***************************************************************************)
C13_MissingInputFatal ==
    /\ \A n \in 1..Len(failures) :
          (failures[n].cfg.script \in {"mito", "nuc"} /\ failures[n].error = "open") =>
              /\ DOMAIN failures[n].after = DOMAIN failures[n].before
              /\ \A f \in DOMAIN failures[n].before :
                    failures[n].after[f] = failures[n].before[f]
    /\ ~gff_exists =>
          /\ history = <<>>
          /\ pc \in {"idle", "failed"}
          /\ \A n \in 1..Len(failures) : failures[n].error = "open"
    /\ \A n \in 1..Len(failures) : failures[n].error = "open" => ~gff_exists

\* two failed runs with overwrite set, in a directory that holds files of an
\* earlier session
C13_Witness ==
    /\ Len(failures) >= 2
    /\ failures[1].cfg.overwrite /\ failures[2].cfg.overwrite
    /\ failures[1].before = StaleDir
    /\ failures[1].error = "open"
    /\ pc = "failed"
    /\ fs = StaleDir

(***************************************************************************)
(* Sort scenarios: gene records of the nuclear regionDB script on contigs  *)
(* named by a number, by "chr" and a number, and by a letter, in every     *)
(* order.                                                                  *)
(***************************************************************************)
SortRecord(seqid, start_s, end_s) ==
    Record(seqid, S_gene, start_s, end_s, <<".">>, <<"+">>, <<".">>)

SortLines ==
    { SortRecord(<<"2">>, <<"1">>, <<"9">>),
      SortRecord(<<"2">>, <<"5">>, <<"9">>),
      SortRecord(<<"2">>, <<"5">>, <<"7">>),
      SortRecord(<<"1","0">>, <<"1">>, <<"9">>),
      SortRecord(<<"c","h","r","2">>, <<"3">>, <<"9">>),
      SortRecord(<<"X">>, <<"1">>, <<"9">>),
      SortRecord(<<"c","h","r","X">>, <<"1">>, <<"9">>),
      SortRecord(<<"c","h","|">>, <<"1">>, <<"9">>) }

SortScenarios == { Scenario(SortLines, MaxSortLines, {RegionDb}) }

InitSort == InitWith(SortScenarios, {EmptyDict}, 1)

SpecSort == InitSort /\ [][Next]_vars

(***************************************************************************)
(* Orders of contig identifiers, read off the identifiers.                 *)
(***************************************************************************)
AllDigits(s) == s # <<>> /\ \A i \in 1..Len(s) : s[i] \in Range(DigitChars)

RECURSIVE NumberOf(_)
NumberOf(s) ==
    IF s = <<>> THEN 0
    ELSE 10 * NumberOf(SubSeq(s, 1, Len(s) - 1)) + (IndexIn(s[Len(s)], DigitChars) - 1)

\* contig a sorts before contig b when the numbered identifiers are those that
\* Numbered(_) says and carry the number Num(_); others compare as strings
ContigBefore(a, b, Numbered(_), Num(_)) ==
    IF Numbered(a) /\ Numbered(b) THEN Num(a) < Num(b)
    ELSE IF Numbered(a) # Numbered(b) THEN Numbered(a)
    ELSE StrLess(a, b)

RowBefore(x, y, Numbered(_), Num(_)) ==
    \/ ContigBefore(x[1], y[1], Numbered, Num)
    \/ /\ ~ContigBefore(y[1], x[1], Numbered, Num)
       /\ (IntVal(x[2]) < IntVal(y[2])
           \/ (IntVal(x[2]) = IntVal(y[2]) /\ IntVal(x[3]) < IntVal(y[3])))

CountIn(s, x) == Cardinality({i \in 1..Len(s) : s[i] = x})

IsPermutation(s, t) ==
    Len(s) = Len(t) /\ \A x \in Range(s) \cup Range(t) : CountIn(s, x) = CountIn(t, x)

(***************************************************************************)
(* C11: for the rows of every feature of a completed run of the regionDB   *)
(* script, sort_bed returns a permutation ordered by (contig, start0, end) *)
(* where only the identifiers made of digits alone count as numeric: they  *)
(* sort by their number and before all others, the others sort as strings  *)
(* (so "10" comes before "chr2").  chrom_key takes the digits after a      *)
(* leading "chr" for a number too, so sort_bed puts "chr2" before "10".    *)
(***************************************************************************)
C11_PurelyNumericFirst ==
    \A n \in 1..Len(history) :
        history[n].cfg.script = "regiondb" =>
            \A k \in DOMAIN history[n].beds.rows :
                LET entries == history[n].beds.rows[k]
                    out == sort_bed(entries)
                IN  /\ IsPermutation(entries, out)
                    /\ \A i, j \in 1..Len(out) :
                          i < j => ~RowBefore(out[j], out[i], AllDigits, NumberOf)

(***************************************************************************)
(* Attribute scenarios: gene records that differ in their attribute        *)
(* column: values that hold "=", keys given twice, `key value` fields with *)
(* and without quotes.                                                     *)
(***************************************************************************)
AttrStrings ==
    { <<"I","D","=","a","=","b">>,
      <<"I","D","=","G","1",";","I","D","=","G","2">>,
      <<"N","a","m","e","=","N","1",";","N","a","m","e","=">>,
      <<"N","a","m","e","=","a"," ","b">>,
      <<"N","a","m","e"," ","\"","Q","\"">>,
      <<"I","D","=","G","1",";","I","D"," ","\"","G","2","\"">>,
      <<"g","e","n","e"," ","g","1",";","g","e","n","e"," ","g","2">>,
      <<"N","a","m","e"," ","\"","\"","Q","\"">> }

AttrLines(seqid) ==
    {Record(seqid, S_gene, <<"1">>, <<"1","0">>, <<".">>, <<"+">>, a) : a \in AttrStrings}

AttrScenarios ==
    { Scenario(AttrLines(S_Mito), MaxAttrLines, {MitoDefault(FALSE)}),
      Scenario(AttrLines(S_chr1), MaxAttrLines, {NucFanOut(TRUE, FALSE)}) }

InitAttr == InitWith(AttrScenarios, {EmptyDict}, 1)

SpecAttr == InitAttr /\ [][Next]_vars

(***************************************************************************)
(* The fields of an attribute string, read off the string.                 *)
(***************************************************************************)
\* the place of the first ch in f (f holds one)
FirstIndex(f, ch) == CHOOSE i \in 1..Len(f) : f[i] = ch /\ \A j \in 1..(i - 1) : f[j] # ch

\* the non-empty fields between the ";"
RECURSIVE FieldsOf(_)
FieldsOf(s) ==
    IF ";" \notin Range(s) THEN (IF s = <<>> THEN <<>> ELSE <<s>>)
    ELSE LET i == FirstIndex(s, ";")
         IN  (IF i = 1 THEN <<>> ELSE <<SubSeq(s, 1, i - 1)>>)
             \o FieldsOf(SubSeq(s, i + 1, Len(s)))

HasEq(f) == "=" \in Range(f)

HasSpace(f) == " " \in Range(f)

FieldKey(f) ==
    IF HasEq(f) THEN SubSeq(f, 1, FirstIndex(f, "=") - 1)
    ELSE IF HasSpace(f) THEN SubSeq(f, 1, FirstIndex(f, " ") - 1)
    ELSE f

\* what follows the first "=" of a key=value field
AfterEq(f) == SubSeq(f, FirstIndex(f, "=") + 1, Len(f))

\* what follows the first space of a `key value` field
AfterSpace(f) == SubSeq(f, FirstIndex(f, " ") + 1, Len(f))

\* the last field of the string with the key of field i
IsLastOfKey(fields, i) ==
    \A j \in (i + 1)..Len(fields) : FieldKey(fields[j]) # FieldKey(fields[i])

\* every field of the string is key=value
OnlyEqFields(s) == \A i \in 1..Len(FieldsOf(s)) : HasEq(FieldsOf(s)[i])

\* the mapping of a string of key=value fields: split at the first "=", last wins
EqMapping(s) ==
    LET fields == FieldsOf(s)
    IN  [k \in {FieldKey(fields[i]) : i \in 1..Len(fields)} |->
            AfterEq(fields[CHOOSE i \in 1..Len(fields) :
                               FieldKey(fields[i]) = k /\ IsLastOfKey(fields, i)])]

(***************************************************************************)
(* C12: parse_attrs of either script gives every key of the string the     *)
(* value of the last field with that key (what the field alone parses to), *)
(* a key=value field being split at its first "=" with everything after   *)
(* it, later "=" included, as the value; the name of an emitted record     *)
(* whose fields are all key=value follows from that mapping.               *)
(***************************************************************************)
C12_FirstEqLastWins ==
    (InRun /\ cfg.script \in {"mito", "nuc"}) =>
        /\ \A n \in 1..Len(LinesRead) :
              LET d == AttrsOf(cfg, LinesRead[n])
                  fields == FieldsOf(LinesRead[n][9])
              IN  /\ DOMAIN d = {FieldKey(fields[i]) : i \in 1..Len(fields)}
                  /\ \A i \in 1..Len(fields) :
                        IsLastOfKey(fields, i) =>
                            /\ d[FieldKey(fields[i])] =
                                   AttrsOf(cfg, [LinesRead[n] EXCEPT ![9] = fields[i]])[FieldKey(fields[i])]
                            /\ HasEq(fields[i]) => d[FieldKey(fields[i])] = AfterEq(fields[i])
        /\ LET src == SelectSeq(LinesRead, LAMBDA cols : Emitted(cfg, cols))
           IN  \A i \in 1..Len(src) :
                  OnlyEqFields(src[i][9]) =>
                      /\ i <= Len(RowsOf(S_gene))
                      /\ NamesOf(S_gene)[i] = PriorityName(EqMapping(src[i][9]), src[i][3])

\* a finished run that named one record a=b (the value after the first "=") and
\* another G2 (the later of two ID fields)
C12_Witness ==
    /\ pc = "done"
    /\ cfg.script \in {"mito", "nuc"}
    /\ Len(RowsOf(S_gene)) = 2
    /\ gff[1][9] = <<"I","D","=","a","=","b">>
    /\ NamesOf(S_gene)[1] = <<"a","=","b">>
    /\ gff[2][9] = <<"I","D","=","G","1",";","I","D","=","G","2">>
    /\ NamesOf(S_gene)[2] = <<"G","2">>

(***************************************************************************)
(* The mapping of an attribute string by the grammar of the attribute      *)
(* column: key=value, `key value` with the quotes around the value         *)
(* removed, or a bare key; last wins.                                      *)
(***************************************************************************)
RECURSIVE Unquoted(_)
Unquoted(v) ==
    IF v # <<>> /\ Head(v) = "\"" THEN Unquoted(Tail(v))
    ELSE IF v # <<>> /\ v[Len(v)] = "\"" THEN Unquoted(SubSeq(v, 1, Len(v) - 1))
    ELSE v

FieldValue(f) ==
    IF HasEq(f) THEN AfterEq(f)
    ELSE IF HasSpace(f) THEN Unquoted(AfterSpace(f))
    ELSE <<>>

GrammarMapping(s) ==
    LET fields == FieldsOf(s)
    IN  [k \in {FieldKey(fields[i]) : i \in 1..Len(fields)} |->
            FieldValue(fields[CHOOSE i \in 1..Len(fields) :
                                  FieldKey(fields[i]) = k /\ IsLastOfKey(fields, i)])]

(***************************************************************************)
(* C15: in the organelle script and in the nuclear script alike, the value *)
(* of a `key value` field is stored without its surrounding double quotes: *)
(* both variants of parse_attrs return the mapping of the grammar for      *)
(* every attribute string a run reads, and the emitted names carry no      *)
(* quote that the grammar removes.                                         *)
(***************************************************************************)
C15_QuotesStrippedInBoth ==
    (InRun /\ cfg.script \in {"mito", "nuc"}) =>
        /\ \A n \in 1..Len(LinesRead) :
              AttrsOf(cfg, LinesRead[n]) = GrammarMapping(LinesRead[n][9])
        /\ LET src == SelectSeq(LinesRead, LAMBDA cols : Emitted(cfg, cols))
           IN  \A i \in 1..Len(src) :
                  /\ i <= Len(RowsOf(S_gene))
                  /\ NamesOf(S_gene)[i] = PriorityName(GrammarMapping(src[i][9]), src[i][3])

(***************************************************************************)
(* Fallback-name scenarios: records with an empty feature type, with and   *)
(* without a usable attribute, next to gene records and records with a bad *)
(* coordinate; under a mapping that lists the empty type and under the     *)
(* mapping of the organelle script, which does not; two runs in a row.     *)
(***************************************************************************)
S_anon == <<"a","n","o","n">>

AnonMapping == << <<S_anon, << <<>> >> >>, <<S_gene, <<S_gene>>>> >>

CounterLines(seqid) ==
    { Record(seqid, <<>>, <<"1">>, <<"1","0">>, <<".">>, <<"+">>, <<".">>),
      Record(seqid, <<>>, <<"2">>, <<"1","0">>, <<".">>, <<"+">>, <<"N","a","m","e","=">>),
      Record(seqid, <<>>, <<"3">>, <<"1","0">>, <<".">>, <<"+">>, <<"I","D","=","G","1">>),
      Record(seqid, S_gene, <<"4">>, <<"1","0">>, <<".">>, <<"+">>, <<".">>),
      Record(seqid, <<>>, <<"x">>, <<"1","0">>, <<".">>, <<"+">>, <<".">>) }

CounterScenarios ==
    { Scenario(CounterLines(S_Mito), MaxCounterLines,
               {Invocation("mito", AnonMapping, {}, TRUE, TRUE)}),
      Scenario(CounterLines(S_Mito), MaxCounterLines, {MitoDefault(TRUE)}),
      Scenario(CounterLines(S_chr1), MaxCounterLines,
               {Invocation("nuc", AnonMapping, {}, TRUE, TRUE)}) }

InitCounter == InitWith(CounterScenarios, {EmptyDict}, 2)

SpecCounter == InitCounter /\ [][Next]_vars

(***************************************************************************)
(* C14: a record that gets as far as its name and has no usable attribute  *)
(* and an empty feature type is named "{feature_type}_{n}", n being the    *)
(* number of such records of its type read so far in the run, itself       *)
(* included; the counter of a type is that number at every point of the    *)
(* run, so no other record changes it; every run counts from 1 again.      *)
(***************************************************************************)
\* the record gets as far as its name and the chain leaves the name empty
ReachesFallback(c, cols) ==
    /\ ~IsComment(cols)
    /\ Len(cols) >= 9
    /\ PassesPartition(c, cols)
    /\ IntsParse(cols)
    /\ cols[3] = <<>>
    /\ Usable(AttrsOf(c, cols)) = {}

\* the records of type t among the first p lines that reached the fallback
FallbackCount(c, lines, p, t) ==
    Cardinality({q \in 1..p : ReachesFallback(c, lines[q]) /\ lines[q][3] = t})

\* the places of the lines read so far whose record has a row in category k
PlacesOf(c, k) ==
    SelectSeq([p \in 1..Len(LinesRead) |-> p],
              LAMBDA p : Emitted(c, LinesRead[p]) /\ k \in KeysOfType(c, LinesRead[p][3]))

TypesIn(lines) == {lines[q][3] : q \in {r \in 1..Len(lines) : Len(lines[r]) >= 9}}

C14_FallbackCounter ==
    /\ (InRun /\ cfg.script \in {"mito", "nuc"}) =>
          /\ \A t \in TypesIn(gff) \cup DOMAIN counters :
                CounterGet(counters, t) = FallbackCount(cfg, gff, Len(LinesRead), t)
          /\ \A k \in AllKeys(cfg) :
                /\ Len(RowsOf(k)) = Len(PlacesOf(cfg, k))
                /\ \A i \in 1..Len(PlacesOf(cfg, k)) :
                      LET p == PlacesOf(cfg, k)[i]
                      IN  ReachesFallback(cfg, gff[p]) =>
                              NamesOf(k)[i] =
                                  gff[p][3] \o <<"_">> \o
                                  IntToStr(FallbackCount(cfg, gff, p, gff[p][3]))
    /\ \A n \in 1..Len(history) :
          history[n].cfg.script \in {"mito", "nuc"} =>
              \A t \in TypesIn(gff) \cup DOMAIN history[n].counters :
                  CounterGet(history[n].counters, t) =
                      FallbackCount(history[n].cfg, gff, Len(gff), t)

\* the second run in a row over a fallback record, a record named by its ID and
\* another fallback record: the names are _1, G1, _2 again
C14_Witness ==
    /\ pc = "done"
    /\ Len(history) = 2
    /\ cfg.script \in {"mito", "nuc"}
    /\ Len(RowsOf(S_anon)) = 3
    /\ NamesOf(S_anon) = << <<"_","1">>, <<"G","1">>, <<"_","2">> >>
    /\ history[1].counters = history[2].counters
    /\ CounterGet(counters, <<>>) = 2

(***************************************************************************)
(* C16: at every point of a run of extract_mito_features or gff_to_beds,   *)
(* whatever records were read (of listed, unknown and passthrough types),  *)
(* the reverse index is the one build_reverse_map returned: its keys are   *)
(* the feature types the mapping lists, and each holds the category keys   *)
(* that list it, in the order of the mapping.                              *)
(***************************************************************************)
ListedTypes(c) == UNION {Range(TypesOfItem(c.mapping[i])) : i \in 1..Len(c.mapping)}

C16_ReverseIndexReadOnly ==
    (InRun /\ cfg.script \in {"mito", "nuc"}) =>
        /\ revmap = RevMapOf(cfg)
        /\ DOMAIN revmap = ListedTypes(cfg)
        /\ \A t \in DOMAIN revmap : revmap[t] = ListedKeys(cfg, t)

\* a finished run that read a record of an unknown type and emitted a record of
\* a passthrough type and one of a listed type
C16_Witness ==
    /\ pc = "done"
    /\ cfg.script \in {"mito", "nuc"}
    /\ S_ARS \in cfg.single_features
    /\ S_ARS \in DOMAIN beds.rows
    /\ S_ARS \notin DOMAIN revmap
    /\ \E i \in 1..Len(gff) : gff[i][3] = S_exon
    /\ S_exon \notin DOMAIN revmap

(***************************************************************************)
(* The categories of a run and the files of its write stage.               *)
(***************************************************************************)
\* the categories of the records of the file that the run emits
CategoriesDue(c, lines) ==
    UNION {KeysOfType(c, lines[i][3]) : i \in {j \in 1..Len(lines) : Emitted(c, lines[j])}}

EndsWith(s, tail) ==
    Len(s) >= Len(tail) /\ SubSeq(s, Len(s) - Len(tail) + 1, Len(s)) = tail

\* the write stage has written the files that the categories keys name, each
\* ending with the rows of the last of them that names it, and no other file
\* of the directory is created, removed or changed
WrittenExactly(h, keys) ==
    \A f \in DOMAIN h.before \cup DOMAIN h.after \cup FilesOf(h, keys) :
        IF WritersOf(h, keys, f) # <<>>
        THEN /\ f \in DOMAIN h.after
             /\ EndsWith(h.after[f],
                         TextOf(h.cfg, h.beds.rows[Last(WritersOf(h, keys, f))]))
        ELSE /\ f \in DOMAIN h.before
             /\ f \in DOMAIN h.after
             /\ h.after[f] = h.before[f]

(***************************************************************************)
(* C17, as claimed: a run of extract_mito_features or gff_to_beds writes   *)
(* the file of a category iff the category received a row in the run (it   *)
(* is a category of one of its emitted records): the file of each such     *)
(* category exists after the run and ends with rows of the run; every      *)
(* other file of the directory, a .bed file of an earlier run included, is *)
(* there after the run iff it was there before, with the same content,     *)
(* also with overwrite set.                                                *)
(***************************************************************************)
C17_OnlyPopulatedWritten ==
    \A h \in WriteStages :
        h.cfg.script \in {"mito", "nuc"} =>
            /\ Populated(h) = CategoriesDue(h.cfg, gff)
            /\ \A k \in Populated(h) : Len(h.beds.rows[k]) >= 1 /\ ~Refused(h.cfg, k)
            /\ WrittenExactly(h, h.beds.order)

(***************************************************************************)
(* C17, amended: a run of extract_mito_features or gff_to_beds writes      *)
(* files only for categories that received a row in the run, in the order  *)
(* the categories received their first row, and for all of them when every *)
(* file can be opened.  When the file of a category cannot be opened the   *)
(* run ends there with the error: the files of the categories before it    *)
(* are written, its own file and those of the categories after it are not. *)
(* Every file no written category names, a .bed file of an earlier run     *)
(* included, is there after the run iff it was there before, with the same *)
(* content, also with overwrite set.                                       *)
(***************************************************************************)
C17_PopulatedWrittenUntilRefused ==
    \A h \in WriteStages :
        h.cfg.script \in {"mito", "nuc"} =>
            /\ Populated(h) = CategoriesDue(h.cfg, gff)
            /\ \A k \in Populated(h) : Len(h.beds.rows[k]) >= 1
            /\ h.raised = (\E k \in Populated(h) : Refused(h.cfg, k))
            /\ WrittenExactly(h, Opened(h))

\* an overwriting run in a directory with gene.bed and tRNA_gene.bed of an
\* earlier session, over a gene record and a tRNA_gene record, under the keys
\* gene, ./gene, a/b and all: gene.bed is replaced, the open of a/b.bed is
\* refused, all.bed is not written and tRNA_gene.bed is as it was
C17_Witness ==
    /\ pc = "failed"
    /\ Len(failures) >= 1
    /\ failures[1].error = "write"
    /\ failures[1].cfg.overwrite
    /\ failures[1].before = StaleDir
    /\ failures[1].beds.order = <<S_gene, S_dot_gene, S_a_b, S_all>>
    /\ failures[1].after[S_gene \o S_bed] # <<OldLine>>
    /\ failures[1].after[S_tRNA_gene \o S_bed] = <<OldLine, OldLine>>
    /\ (S_all \o S_bed) \notin DOMAIN failures[1].after

(***************************************************************************)
(* Summary scenarios: the organelle script on files that mix blank lines,  *)
(* comments, short lines, records of other contigs, of unmapped types and  *)
(* with bad coordinates with records of one and of two categories.         *)
(***************************************************************************)
SummaryLines ==
    { BlankLine,
      CommentLine,
      ShortLine(S_Mito),
      Record(S_chr1, S_gene, <<"1">>, <<"9">>, <<".">>, <<"+">>, <<"I","D","=","N">>),
      Record(S_Mito, S_exon, <<"2">>, <<"9">>, <<".">>, <<"+">>, <<"I","D","=","E">>),
      Record(S_Mito, S_gene, <<"x">>, <<"9">>, <<".">>, <<"+">>, <<"I","D","=","B">>),
      Record(S_Mito, S_gene, <<"3">>, <<"9">>, <<".">>, <<"+">>, <<"I","D","=","G">>),
      Record(S_Mito, S_tRNA_gene, <<"4">>, <<"9">>, <<".">>, <<"-">>, <<"I","D","=","T">>) }

SummaryScenarios ==
    { Scenario(SummaryLines, MaxSummaryLines, {MitoDefault(FALSE)}),
      Scenario(SummaryLines, MaxSummaryLines,
               {Invocation("mito", FanOutMapping, {}, TRUE, FALSE)}),
      Scenario(SummaryLines, MaxSummaryLines,
               {Invocation("mito", RepeatMapping, {}, TRUE, FALSE)}),
      Scenario(SummaryLines, MaxSummaryLines, {PathKeys("mito", FALSE)}) }

InitSummary == InitWith(SummaryScenarios, {EmptyDict}, 1)

SpecSummary == InitSummary /\ [][Next]_vars

(***************************************************************************)
(* C18: in a run of extract_mito_features the processed total is the       *)
(* number of lines read that are neither blank nor comments (short lines,  *)
(* other contigs, bad coordinates and unmapped types included), and the    *)
(* emitted total is the sum of the row counts of the categories, which is  *)
(* the sum over the accepted records of the number of their categories (a  *)
(* category counted once for each time the mapping lists the type under    *)
(* it); a run that completes reports these totals of the whole file after  *)
(* one "Wrote n regions" report for each category, in the order the        *)
(* categories received their first row, with n the row count of the        *)
(* category, so the emitted total is the sum of the counts reported; and   *)
(* into an empty directory each file holds as many lines as were reported  *)
(* for the categories that name it.                                        *)
(***************************************************************************)
IsBlank(cols) == cols = << <<>> >>

RECURSIVE SumOf(_)
SumOf(s) == IF s = <<>> THEN 0 ELSE Head(s) + SumOf(Tail(s))

\* lines that are neither blank nor comments
Counted(lines) == Len(SelectSeq(lines, LAMBDA cols : ~IsBlank(cols) /\ ~IsComment(cols)))

\* the sum, over the accepted records, of the number of categories of each
RowsOwed(c, lines) ==
    SumOf([i \in 1..Len(lines) |->
              IF Accepted(c, lines[i]) THEN Len(KeySeq(c, lines[i][3])) ELSE 0])

\* the sum of the row counts of the categories of the buffers
RowsHeld(b) == SumOf([i \in 1..Len(b.order) |-> Len(b.rows[b.order[i]])])

(* that meet each clause of the heuristic and on contigs that miss it      *)
(* narrowly; a run that skips the organelle and a run that does not, on    *)
(* the same file.                                                          *)
(***************************************************************************)
ClassifyContigs ==
    { <<"M","I","T","O","1">>,
      <<"M","t","D","N","A">>,
      <<"C","h","r","M">>,
      <<"x","M","i","t","o","c","h","o","n","d">>,
      <<"M">>,
      <<>>,
      S_chr1,
      <<"x","m","t">>,
      <<"a","m","i","t","o">>,
      <<"m","1">>,
      <<"c","h","r">> }

ClassifyLines ==
    {Record(s, S_gene, <<"1">>, <<"1","0">>, <<".">>, <<"+">>, <<"I","D","=","G","1">>) :
        s \in ClassifyContigs}

ClassifyScenarios ==
    { Scenario(ClassifyLines, MaxClassifyLines,
               {NucFanOut(TRUE, TRUE), NucFanOut(FALSE, TRUE)}) }

InitClassify == InitWith(ClassifyScenarios, {EmptyDict}, 2)

SpecClassify == InitClassify /\ [][Next]_vars

(***************************************************************************)
(* The heuristic, read off a contig identifier.                            *)
(***************************************************************************)
LowerOf(s) ==
    [i \in 1..Len(s) |->
        IF \E j \in 1..Len(UpperCase) : UpperCase[j] = s[i]
        THEN LowerCase[CHOOSE j \in 1..Len(UpperCase) : UpperCase[j] = s[i]]
        ELSE s[i]]

HasPrefix(s, p) == Len(s) >= Len(p) /\ SubSeq(s, 1, Len(p)) = p

HasPart(s, p) == \E i \in 1..(Len(s) - Len(p) + 1) : SubSeq(s, i, i + Len(p) - 1) = p

HeuristicOrganelle(s) ==
    \/ \E p \in {<<"m","i","t","o">>, <<"m","t">>, <<"c","h","r","m">>} : HasPrefix(LowerOf(s), p)
    \/ HasPart(LowerOf(s), <<"m","i","t","o","c","h","o","n","d">>)
    \/ LowerOf(s) \in {<<"m">>, <<"c","h","r","m">>, <<"c","h","r","m","_","m">>}

\* the contigs of the lines, in order, without those that Dropped(_) holds of
ContigsKept(lines, Dropped(_)) ==
    LET kept == SelectSeq(lines, LAMBDA cols : ~Dropped(cols[1]))
    IN  [i \in 1..Len(kept) |-> kept[i][1]]

ContigsOfRows(rows) == [i \in 1..Len(rows) |-> rows[i][1]]

(***************************************************************************)
(* C19: is_mito holds of a contig iff its lower-cased identifier starts    *)
(* with "mito", "mt" or "chrm", or contains "mitochond", or is "m", "chrm" *)
(* or "chrm_m"; it does not hold of the empty identifier; a run of         *)
(* gff_to_beds with skip_mito emits the records of exactly the contigs     *)
(* that is_mito does not hold of, and a run without skip_mito emits the    *)
(* records of every contig.                                                *)
(***************************************************************************)
C19_HeuristicClassifier ==
    /\ (InRun /\ cfg.script = "nuc") =>
          /\ \A n \in 1..Len(LinesRead) :
                is_mito(LinesRead[n][1]) <=> HeuristicOrganelle(LinesRead[n][1])
          /\ ~is_mito(<<>>)
          /\ cfg.skip_mito =>
                ContigsOfRows(RowsOf(S_gene)) = ContigsKept(LinesRead, HeuristicOrganelle)
          /\ ~cfg.skip_mito =>
                ContigsOfRows(RowsOf(S_gene)) = ContigsKept(LinesRead, LAMBDA s : FALSE)
    /\ \A n \in 1..Len(history) :
          history[n].cfg.script = "nuc" =>
              ContigsOfRows(DictGet(history[n].beds.rows, S_gene)) =
                  IF history[n].cfg.skip_mito
                  THEN ContigsKept(gff, HeuristicOrganelle)
                  ELSE ContigsKept(gff, LAMBDA s : FALSE)

\* the same file, with contigs M and xMitochond, run with skip_mito (no row) and
\* then without (two rows)
C19_Witness ==
    /\ Len(history) = 2
    /\ history[1].cfg.skip_mito
    /\ ~history[2].cfg.skip_mito
    /\ Len(gff) = 2
    /\ gff[1][1] = <<"M">>
    /\ gff[2][1] = <<"x","M","i","t","o","c","h","o","n","d">>
    /\ history[1].beds = EmptyBeds
    /\ Len(history[2].beds.rows[S_gene]) = 2

(***************************************************************************)
(* Score and strand scenarios: gene records that differ in their score     *)
(* and strand columns.                                                     *)
(***************************************************************************)
ScoreValues == { <<".">>, <<"0">>, <<"7",".","5">> }

StrandValues == { <<"+">>, <<"-">>, <<".">>, <<"?">>, <<>> }

ScoreLines(seqid) ==
    {Record(seqid, S_gene, <<"1">>, <<"1","0">>, sc, sd, <<"I","D","=","G","1">>) :
        sc \in ScoreValues, sd \in StrandValues}

ScoreScenarios ==
    { Scenario(ScoreLines(S_Mito), MaxScoreLines, {MitoDefault(FALSE)}),
      Scenario(ScoreLines(S_chr1), MaxScoreLines, {NucFanOut(TRUE, FALSE)}) }

InitScore == InitWith(ScoreScenarios, {EmptyDict}, 1)

SpecScore == InitScore /\ [][Next]_vars

(***************************************************************************)
(* C20: every row emitted by extract_mito_features or gff_to_beds has the  *)
(* strand of its record when that is "+", "-" or ".", and "." otherwise,   *)
(* and the score of its record, unless that is ".", which gives "0"; so no *)
(* row and no line written has a strand outside {"+", "-", "."} or the     *)
(* score ".".                                                              *)
(***************************************************************************)
ValidStrands == { <<"+">>, <<"-">>, <<".">> }

C20_ScoreStrandNormalized ==
    /\ (InRun /\ cfg.script \in {"mito", "nuc"}) =>
          \A k \in AllKeys(cfg) :
              LET src == SelectSeq(LinesRead,
                                   LAMBDA cols : Emitted(cfg, cols) /\ k \in KeysOfType(cfg, cols[3]))
              IN  /\ Len(RowsOf(k)) = Len(src)
                  /\ \A i \in 1..Len(src) :
                        /\ RowsOf(k)[i][6] = (IF src[i][7] \in ValidStrands THEN src[i][7] ELSE <<".">>)
                        /\ RowsOf(k)[i][5] = (IF src[i][6] = <<".">> THEN <<"0">> ELSE src[i][6])
                        /\ RowsOf(k)[i][6] \in ValidStrands
                        /\ RowsOf(k)[i][5] # <<".">>
    /\ \A n \in 1..Len(history) :
          history[n].cfg.script \in {"mito", "nuc"} =>
              \A f \in DOMAIN history[n].after :
                  \A i \in 1..Len(history[n].after[f]) :
                      /\ history[n].after[f][i][6] \in ValidStrands
                      /\ history[n].after[f][i][5] # <<".">>

\* a finished run that wrote a record with score "." and strand "?" as 0 and ".",
\* and a record with score 7.5 and strand "-" as they are
C20_Witness ==
    /\ pc = "done"
    /\ cfg.script \in {"mito", "nuc"}
    /\ Len(gff) = 2
    /\ gff[1][6] = <<".">> /\ gff[1][7] = <<"?">>
    /\ gff[2][6] = <<"7",".","5">> /\ gff[2][7] = <<"-">>
    /\ Len(fs[S_gene \o S_bed]) = 2
    /\ fs[S_gene \o S_bed][1][5] = <<"0">> /\ fs[S_gene \o S_bed][1][6] = <<".">>
    /\ fs[S_gene \o S_bed][2][5] = <<"7",".","5">> /\ fs[S_gene \o S_bed][2][6] = <<"-">>

====
